---- MODULE Spec2Model ----
(***************************************************************************)
(* ComptalkApp: the optimistic like/share handlers of the feed (Home), the *)
(* search view and the trending view, the refetches that replace their     *)
(* local state, and the trending ranking computation; the bookmarks,       *)
(* notifications, profile and messages views, and the session and unread   *)
(* badges of App.                                                          *)
(*                                                                         *)
(* React state is modelled as committed state: the synchronous part of a   *)
(* handler (up to its first await) is one step and is rendered before the  *)
(* next event is handled; what follows an await is a later step, and its   *)
(* functional updates (prev => ...) read the state of that later moment.   *)
(* App.renderContent mounts one view at a time: view names it.             *)
(***************************************************************************)
EXTENDS Integers, Sequences, FiniteSets, TLC

VARIABLES
  view,             \* the mounted component: "feed", "search", "trending",
                    \* "bookmarks", "notifications", "app", "profile", "messages"
  currentUserId,    \* useState<string | null>
  loading,          \* loadingPosts (feed) / loading (search, trending)
  posts,            \* feed and search: Post[]
  filteredPosts,    \* search: Post[]
  trendingPosts,    \* trending: Post[]
  timeRange,        \* trending: 'day' | 'week' | 'month'
  userLikedPosts,   \* Set<string>
  userSharedPosts,  \* Set<string>
  inserts,          \* durable writes in flight (awaited supabase inserts)
  fetches,          \* reads in flight (awaited supabase selects)
  db,               \* the data service: sessions and the likes/shares/replies rows
  issued,           \* number of inserts issued so far
  started,          \* number of refetches started after mount
  last,             \* history: the handler step just taken
  rankIn,           \* ranking check: the posts table with its count answers
  bookmarkedPosts,  \* bookmarks: Post[]
  deletes,          \* bookmarks: awaited supabase deletes in flight
  bookmarks,        \* the data service: post ids of the user's bookmarks rows
  searchText,       \* search: the text of the search box
  selectedComplexes,\* search: Set<string> of category keys
  minComplexLevel,  \* search: number
  maxComplexLevel,  \* search: number
  notifications,    \* notifications: Notification[]
  unreadCount,      \* notifications: number
  updates,          \* notifications: awaited supabase updates in flight
  notificationRows, \* the data service: the user's notifications rows, newest first
  isLoggedIn,       \* App: boolean
  activeTab,        \* App: TabType
  unreadNotifications, \* App: number
  unreadMessages,   \* App: number
  appAwaits,        \* App: awaited calls of checkAuth, fetchUnreadCounts, handleLogout
  unreadOnService,  \* the data service: the user's unread notifications and messages
  userComplexes,    \* profile: UserComplex[]
  totalComplexLevel,\* profile: number
  profileAwaits,    \* profile: awaited calls of saveComplex / removeComplex
  complexRows,      \* the data service: the user's user_complexes rows
  complexLevel,     \* the data service: complex_level of the user's profile
  conversations,    \* messages: Conversation[]
  selectedConversation, \* messages: Conversation | null (its id)
  messages,         \* messages: Message[]
  messageModalVisible, \* messages: boolean
  sendingMessage,   \* messages: boolean
  loadingMessages,  \* messages: boolean
  messageAwaits,    \* messages: awaited supabase calls in flight
  subscribedConversation, \* messages: selectedConversation as the callback
                    \* given to the messages_changes channel holds it
  realtime,         \* the data service: change events pending and delivered
  messageRows       \* the data service: the messages rows per conversation

vars == <<view, currentUserId, loading, posts, filteredPosts, trendingPosts,
          timeRange, userLikedPosts, userSharedPosts, inserts, fetches, db,
          issued, started, last, rankIn, bookmarkedPosts, deletes,
          bookmarks, searchText, selectedComplexes, minComplexLevel,
          maxComplexLevel, notifications, unreadCount, updates,
          notificationRows, isLoggedIn, activeTab, unreadNotifications,
          unreadMessages, appAwaits, unreadOnService, userComplexes,
          totalComplexLevel, profileAwaits, complexRows, complexLevel,
          conversations, selectedConversation, messages, messageModalVisible,
          sendingMessage, loadingMessages, messageAwaits,
          subscribedConversation, realtime, messageRows>>

\* the state of the bookmarks view and the bookmarks table
bookmarkVars == <<bookmarkedPosts, deletes, bookmarks>>

\* the filters of the search view
filterVars == <<searchText, selectedComplexes, minComplexLevel, maxComplexLevel>>

\* the state of the notifications view and the notifications table
notificationVars == <<notifications, unreadCount, updates, notificationRows>>

\* the state of App and the unread rows of the service
appVars == <<isLoggedIn, activeTab, unreadNotifications, unreadMessages,
             appAwaits, unreadOnService>>

\* the complexes of the profile view and of the service
profileVars == <<userComplexes, totalComplexLevel, profileAwaits, complexRows,
                 complexLevel>>

\* the state of the messages view, its subscription and the messages table
messageVars == <<conversations, selectedConversation, messages,
                 messageModalVisible, sendingMessage, loadingMessages,
                 messageAwaits, subscribedConversation, realtime, messageRows>>

localVars == <<currentUserId, loading, posts, filteredPosts, trendingPosts,
               timeRange, userLikedPosts, userSharedPosts>>

----------------------------------------------------------------------------
(* Bounds of the model *)

\* rows of other users on the last post, per table, when a view mounts
MaxBase == 1
\* inserts issued plus refetches started after mount, in one run
MaxOps == 2
\* rows of the posts table in the ranking check
MaxRows == 25
\* seeds of the count answers in the ranking check
MaxSeed == 3

----------------------------------------------------------------------------
(* Values *)

null == "null"
Me == "u1"
\* the rows of the posts table, in the order of .order('created_at', {ascending: false})
PostOrder == <<"p1", "p2">>
Posts == {PostOrder[i] : i \in DOMAIN PostOrder}
\* the age of a post in days: now - created_at
PostAge(p) == IF p = "p1" THEN 0 ELSE 10
\* the rows of the replies table per post
PostReplies(p) == IF p = "p1" THEN 1 ELSE 0
Tables == {"likes", "shares"}

\* the answer {count} of a count query: {n}, or {} for null
Count(n) == {n}
\* count || 0
OrZero(c) == IF c = {} THEN 0 ELSE CHOOSE n \in c : TRUE

Ids(ps) == {ps[i].id : i \in DOMAIN ps}

\* the counts shown for post p in list ps (empty when p is not in the list)
LikesOf(ps, p) == {ps[i].likes_count : i \in {j \in DOMAIN ps : ps[j].id = p}}
SharesOf(ps, p) == {ps[i].shares_count : i \in {j \in DOMAIN ps : ps[j].id = p}}

\* a handler that forgot its setPosts
BumpLikesNone(ps, p, d) == ps

\* prevPosts.map(post => post.id === postId ? {...post, likes_count: post.likes_count + d} : post)
BumpLikes(ps, p, d) ==
  [i \in DOMAIN ps |->
     IF ps[i].id = p THEN [ps[i] EXCEPT !.likes_count = @ + d] ELSE ps[i]]

\* a map that forgot to compare post.id with postId
BumpSharesAll(ps, p, d) ==
  [i \in DOMAIN ps |-> [ps[i] EXCEPT !.shares_count = @ + d]]

BumpShares(ps, p, d) ==
  [i \in DOMAIN ps |->
     IF ps[i].id = p THEN [ps[i] EXCEPT !.shares_count = @ + d] ELSE ps[i]]

\* a map that moves likes_count and leaves engagement_score behind
BumpTrendingLikesOnly(ps, p, d) ==
  [i \in DOMAIN ps |->
     IF ps[i].id = p THEN [ps[i] EXCEPT !.likes_count = @ + d] ELSE ps[i]]

\* the same map in the trending view, which also moves engagement_score by 3
BumpTrending(ps, p, d) ==
  [i \in DOMAIN ps |->
     IF ps[i].id = p
     THEN [ps[i] EXCEPT !.likes_count = @ + d, !.engagement_score = @ + 3 * d]
     ELSE ps[i]]

\* a handler that lost its sign-in guard
UnauthenticatedNever(uid) == FALSE

\* if (!currentUserId)
Unauthenticated(uid) == uid = null

\* a handler that lost its membership check
AlreadyActedNever(set, p) == FALSE

\* a membership check that looks at the wrong post
AlreadyActedOther(set, p) == set # {} /\ p \notin set

\* userLikedPosts.has(postId) / userSharedPosts.has(postId)
AlreadyActed(set, p) == p \in set

\* the list a view displays
Shown ==
  CASE view = "feed" -> posts
    [] view = "search" -> filteredPosts
    [] OTHER -> trendingPosts

TimeRanges == {"day", "week", "month"}

\* the bookmarks view is not mounted and the user has no bookmarks
NoBookmarks == bookmarkedPosts = <<>> /\ deletes = {} /\ bookmarks = {}

\* NotificationsComponents is not mounted
NoNotifications ==
  /\ notifications = <<>> /\ unreadCount = 0
  /\ updates = {} /\ notificationRows = <<>>

\* App as useState leaves it, nothing awaited
NoApp ==
  /\ isLoggedIn = FALSE /\ activeTab = "home"
  /\ unreadNotifications = 0 /\ unreadMessages = 0
  /\ appAwaits = {}
  /\ unreadOnService = [notifications |-> 0, messages |-> 0]

\* ProfileComponents is not mounted
NoProfile ==
  /\ userComplexes = {} /\ totalComplexLevel = 0 /\ profileAwaits = {}
  /\ complexRows = {} /\ complexLevel = 0

\* MessagesComponents is not mounted
NoMessages ==
  /\ conversations = <<>> /\ selectedConversation = null /\ messages = <<>>
  /\ messageModalVisible = FALSE /\ sendingMessage = FALSE
  /\ loadingMessages = FALSE /\ messageAwaits = {}
  /\ subscribedConversation = null
  /\ realtime = [pending |-> 0, delivered |-> 0]
  /\ messageRows = <<>>

\* the filters as useState leaves them: '', new Set(), 0, 100
NoFilters ==
  /\ searchText = "" /\ selectedComplexes = {}
  /\ minComplexLevel = 0 /\ maxComplexLevel = 100

\* history: the handler step just taken and how it ended
Step(op, table, post, res) ==
  [op |-> op, table |-> table, post |-> post, res |-> res]

NoStep == Step("none", "likes", "p1", "none")

----------------------------------------------------------------------------
(* The data service *)

\* select('*', {count: 'exact', head: true}).eq('post_id', p)
DbCount(table, p) == db.others[table][p] + db.mine[table][p]

\* select('post_id').eq('user_id', user.id), as a Set
DbMembership(table) == {p \in Posts : db.mine[table][p] > 0}

\* insert({post_id, user_id}) written to the table
DbInsert(table, p) == [db EXCEPT !.mine[table][p] = @ + 1]

\* a row of the posts query with the answers of its count queries
Row(id, age, likes, shares, replies) ==
  [id |-> id, age |-> age, likes |-> likes, shares |-> shares, replies |-> replies]

\* the posts table joined with the count answers, newest first
DbRows ==
  [i \in DOMAIN PostOrder |->
     Row(PostOrder[i], PostAge(PostOrder[i]),
         Count(DbCount("likes", PostOrder[i])),
         Count(DbCount("shares", PostOrder[i])),
         Count(PostReplies(PostOrder[i])))]

\* the rows when the count query of table t for post q answers {count: null}
CountFailed(rows, q, t) ==
  [i \in DOMAIN rows |->
     IF rows[i].id # q THEN rows[i]
     ELSE IF t = "likes" THEN [rows[i] EXCEPT !.likes = {}]
     ELSE [rows[i] EXCEPT !.shares = {}]]

\* the outcome of a fetch step: "error" (the posts query failed or an await
\* threw), "nodata", "data", "partial" (the count query of table t for post q
\* failed), "members", "nomembers" (a membership query failed)
Fetched(res, t, q) == [op |-> "fetch", table |-> t, post |-> q, res |-> res]

\* .gte('created_at', cutoffDate.toISOString()) with cutoff = now - days
Since(rows, days) == SelectSeq(rows, LAMBDA r : r.age <= days)

\* the service when a view mounts: a session or none; other users' rows on
\* the last post only; the user's own earlier like and share, if any, on it
DbStates ==
  {[session |-> s,
    others |-> [t \in Tables |-> [p \in Posts |-> IF p = "p1" THEN 0 ELSE b]],
    mine |-> [t \in Tables |-> [p \in Posts |-> IF p = "p1" THEN 0 ELSE m]]] :
     s \in {null, Me}, b \in 0..MaxBase, m \in 0..1}

----------------------------------------------------------------------------
(* Reads and writes in flight *)

\* an awaited read: kind and stage say which, rows / liked / shared are the
\* answers the service computed when the query was sent
Fetch(kind, n, stage, user, rows, liked, shared) ==
  [kind |-> kind, n |-> n, stage |-> stage, user |-> user,
   rows |-> rows, liked |-> liked, shared |-> shared]

\* an insert awaited by a handler; pre is the count the handler found
Insert(n, table, p, pre) ==
  [n |-> n, table |-> table, post |-> p, pre |-> pre]

----------------------------------------------------------------------------
(* Home (the feed) *)

\* data.map(post => ({...post, likes_count: likesCount || 0, shares_count: sharesCount || 0}))
HomePostsWithCounts(rows) ==
  [i \in DOMAIN rows |->
     [id |-> rows[i].id,
      likes_count |-> OrZero(rows[i].likes),
      shares_count |-> OrZero(rows[i].shares)]]

\* getCurrentUser resolves: setCurrentUserId(user.id) when there is a user
HomeGetCurrentUser(f) ==
  /\ view = "feed"
  /\ f \in fetches /\ f.kind = "user"
  /\ currentUserId' = IF f.user # null THEN f.user ELSE currentUserId
  /\ fetches' = fetches \ {f}
  /\ last' = NoStep
  /\ UNCHANGED <<view, loading, posts, filteredPosts, trendingPosts, timeRange,
                 userLikedPosts, userSharedPosts, inserts, db, issued, started,
                 rankIn, bookmarkVars, filterVars, notificationVars, appVars,
                 profileVars, messageVars>>

\* a Home whose effect cleanup never unsubscribes
SubscribedForever == view \in {"feed", "unmounted"}

\* the likes_changes and shares_changes channels deliver events to fetchPosts
\* from the mount effect until its cleanup unsubscribes them
Subscribed == view = "feed"

\* fetchPosts is called again: a postgres_changes event on likes or shares
\* (any user's change), or handlePost's success. The queries are sent.
HomeFetchPosts ==
  /\ Subscribed
  /\ issued + started < MaxOps
  /\ started' = started + 1
  /\ fetches' = fetches \cup
       {Fetch("posts", started + 1, "counts", db.session, DbRows, {}, {})}
  /\ last' = NoStep
  /\ UNCHANGED <<view, localVars, inserts, db, issued, rankIn, bookmarkVars,
                 filterVars, notificationVars, appVars, profileVars,
                 messageVars>>

\* the posts query and the count queries have answered
HomeFetchPostsCounts(f) ==
  /\ view = "feed"
  /\ f \in fetches /\ f.kind = "posts" /\ f.stage = "counts"
  /\ \E answer \in {"error", "nodata", "data", "partial"},
        q \in Posts, t \in Tables :
       /\ IF answer = "partial" THEN q \in {f.rows[i].id : i \in DOMAIN f.rows}
                                ELSE q = "p1" /\ t = "likes"
       /\ \/ /\ answer = "error"       \* if (error) return; also a thrown await
             /\ posts' = posts
             /\ loading' = FALSE
             /\ fetches' = fetches \ {f}
          \/ /\ answer = "nodata"      \* if (!data) { setPosts([]); return; }
             /\ posts' = <<>>
             /\ loading' = FALSE
             /\ fetches' = fetches \ {f}
          \/ /\ answer \in {"data", "partial"}   \* setPosts(postsWithCounts)
             /\ posts' = HomePostsWithCounts(
                            IF answer = "partial" THEN CountFailed(f.rows, q, t)
                                                  ELSE f.rows)
             /\ IF f.user # null
                THEN /\ loading' = loading
                     /\ fetches' = (fetches \ {f}) \cup
                          {[f EXCEPT !.stage = "members",
                                     !.rows = IF answer = "partial"
                                              THEN CountFailed(f.rows, q, t)
                                              ELSE f.rows,
                                     !.liked = DbMembership("likes"),
                                     !.shared = DbMembership("shares")]}
                ELSE /\ loading' = FALSE
                     /\ fetches' = fetches \ {f}
       /\ last' = Fetched(answer, t, q)
  /\ UNCHANGED <<view, currentUserId, filteredPosts, trendingPosts, timeRange,
                 userLikedPosts, userSharedPosts, inserts, db, issued, started,
                 rankIn, bookmarkVars, filterVars, notificationVars, appVars,
                 profileVars, messageVars>>

\* the two membership queries have answered; likedData / sharedData is null
\* when its query failed
HomeFetchPostsMembers(f) ==
  /\ view = "feed"
  /\ f \in fetches /\ f.kind = "posts" /\ f.stage = "members"
  /\ \E likedOk \in BOOLEAN, sharedOk \in BOOLEAN :
       /\ userLikedPosts' = IF likedOk THEN f.liked ELSE userLikedPosts
       /\ userSharedPosts' = IF sharedOk THEN f.shared ELSE userSharedPosts
       /\ last' = Fetched(IF likedOk /\ sharedOk THEN "members" ELSE "nomembers",
                          IF likedOk THEN "shares" ELSE "likes", "p1")
  /\ loading' = FALSE
  /\ fetches' = fetches \ {f}
  /\ UNCHANGED <<view, currentUserId, posts, filteredPosts, trendingPosts,
                 timeRange, inserts, db, issued, started, rankIn, bookmarkVars,
                 filterVars, notificationVars, appVars, profileVars,
                 messageVars>>

\* handleLike(postId) up to its await; the press comes from a rendered row
HomeHandleLike(p) ==
  /\ view = "feed"
  /\ ~loading /\ p \in Ids(posts)
  /\ IF Unauthenticated(currentUserId)
     THEN /\ last' = Step("tap", "likes", p, "unauthenticated")
          /\ UNCHANGED <<localVars, inserts, issued>>
     ELSE IF AlreadyActed(userLikedPosts, p)
     THEN /\ last' = Step("tap", "likes", p, "already")
          /\ UNCHANGED <<localVars, inserts, issued>>
     ELSE /\ issued + started < MaxOps
          /\ userLikedPosts' = userLikedPosts \cup {p}
          /\ posts' = BumpLikes(posts, p, 1)
          /\ inserts' = inserts \cup
               {Insert(issued + 1, "likes", p, LikesOf(posts, p))}
          /\ issued' = issued + 1
          /\ last' = Step("tap", "likes", p, "sent")
          /\ UNCHANGED <<currentUserId, loading, filteredPosts, trendingPosts,
                         timeRange, userSharedPosts>>
  /\ UNCHANGED <<view, fetches, db, started, rankIn, bookmarkVars, filterVars,
                 notificationVars, appVars, profileVars, messageVars>>

\* handleShare(postId) up to its await
HomeHandleShare(p) ==
  /\ view = "feed"
  /\ ~loading /\ p \in Ids(posts)
  /\ IF Unauthenticated(currentUserId)
     THEN /\ last' = Step("tap", "shares", p, "unauthenticated")
          /\ UNCHANGED <<localVars, inserts, issued>>
     ELSE IF AlreadyActed(userSharedPosts, p)
     THEN /\ last' = Step("tap", "shares", p, "already")
          /\ UNCHANGED <<localVars, inserts, issued>>
     ELSE /\ issued + started < MaxOps
          /\ userSharedPosts' = userSharedPosts \cup {p}
          /\ posts' = BumpShares(posts, p, 1)
          /\ inserts' = inserts \cup
               {Insert(issued + 1, "shares", p, SharesOf(posts, p))}
          /\ issued' = issued + 1
          /\ last' = Step("tap", "shares", p, "sent")
          /\ UNCHANGED <<currentUserId, loading, filteredPosts, trendingPosts,
                         timeRange, userLikedPosts>>
  /\ UNCHANGED <<view, fetches, db, started, rankIn, bookmarkVars, filterVars,
                 notificationVars, appVars, profileVars, messageVars>>

\* the branch `if (error)` and the catch block of handleLike / handleShare
HomeRollback(w) ==
  /\ IF w.table = "likes"
     THEN /\ userLikedPosts' = userLikedPosts \ {w.post}
          /\ posts' = BumpLikes(posts, w.post, -1)
          /\ UNCHANGED userSharedPosts
     ELSE /\ userSharedPosts' = userSharedPosts \ {w.post}
          /\ posts' = BumpShares(posts, w.post, -1)
          /\ UNCHANGED userLikedPosts
  /\ UNCHANGED <<currentUserId, loading, filteredPosts, trendingPosts, timeRange>>

\* the awaited insert answers {error: null}: the row is written
HomeInsertOk(w) ==
  /\ view = "feed"
  /\ w \in inserts
  /\ db' = DbInsert(w.table, w.post)
  /\ inserts' = inserts \ {w}
  /\ last' = Step("ok", w.table, w.post, "kept")
  /\ UNCHANGED <<view, localVars, fetches, issued, started, rankIn, bookmarkVars,
                 filterVars, notificationVars, appVars, profileVars,
                 messageVars>>

\* the awaited insert answers {error}
HomeInsertError(w) ==
  /\ view = "feed"
  /\ w \in inserts
  /\ HomeRollback(w)
  /\ inserts' = inserts \ {w}
  /\ last' = Step("error", w.table, w.post, "rolledback")
  /\ UNCHANGED <<view, fetches, db, issued, started, rankIn, bookmarkVars,
                 filterVars, notificationVars, appVars, profileVars,
                 messageVars>>

\* the awaited insert throws; the row may or may not have been written
HomeInsertThrow(w) ==
  /\ view = "feed"
  /\ w \in inserts
  /\ HomeRollback(w)
  /\ db' \in {db, DbInsert(w.table, w.post)}
  /\ inserts' = inserts \ {w}
  /\ last' = Step("throw", w.table, w.post, "rolledback")
  /\ UNCHANGED <<view, fetches, issued, started, rankIn, bookmarkVars, filterVars,
                 notificationVars, appVars, profileVars, messageVars>>

\* Home just mounted: useEffect has called getCurrentUser() and fetchPosts()
HomeInit ==
  /\ view = "feed"
  /\ db \in DbStates
  /\ currentUserId = null
  /\ loading = TRUE
  /\ posts = <<>> /\ filteredPosts = <<>> /\ trendingPosts = <<>>
  /\ timeRange = "week"
  /\ userLikedPosts = {} /\ userSharedPosts = {}
  /\ inserts = {}
  /\ fetches = {Fetch("user", 0, "user", db.session, <<>>, {}, {}),
                Fetch("posts", 0, "counts", db.session, DbRows, {}, {})}
  /\ issued = 0 /\ started = 0
  /\ last = NoStep
  /\ rankIn = <<>>
  /\ NoBookmarks
  /\ NoFilters
  /\ NoNotifications
  /\ NoApp
  /\ NoProfile
  /\ NoMessages

HomeNext ==
  \/ \E f \in fetches : HomeGetCurrentUser(f)
  \/ HomeFetchPosts
  \/ \E f \in fetches : HomeFetchPostsCounts(f)
  \/ \E f \in fetches : HomeFetchPostsMembers(f)
  \/ \E p \in Posts : HomeHandleLike(p)
  \/ \E p \in Posts : HomeHandleShare(p)
  \/ \E w \in inserts : HomeInsertOk(w)
  \/ \E w \in inserts : HomeInsertError(w)
  \/ \E w \in inserts : HomeInsertThrow(w)

SpecHome == HomeInit /\ [][HomeNext]_vars

\* App.setActiveTab(another tab): renderContent no longer returns <Home />,
\* the effect cleanup unsubscribes both channels; nothing in flight is
\* cancelled and the handlers' continuations still run
HomeUnmount ==
  /\ view = "feed"
  /\ view' = "unmounted"
  /\ last' = Step("unmount", "likes", "p1", "none")
  /\ UNCHANGED <<localVars, inserts, fetches, db, issued, started, rankIn, bookmarkVars,
                 filterVars, notificationVars, appVars, profileVars,
                 messageVars>>

\* an awaited query of getCurrentUser or fetchPosts answers after the
\* unmount: the function goes on (fetchPosts to its membership queries when
\* it has posts and a user) and its setState calls, on an unmounted
\* component, change nothing
HomeUnmountedFetch(f) ==
  /\ view = "unmounted"
  /\ f \in fetches
  /\ \/ fetches' = fetches \ {f}
     \/ /\ f.kind = "posts" /\ f.stage = "counts" /\ f.user # null
        /\ fetches' = (fetches \ {f}) \cup
             {[f EXCEPT !.stage = "members",
                        !.liked = DbMembership("likes"),
                        !.shared = DbMembership("shares")]}
  /\ last' = Fetched("dropped", "likes", "p1")
  /\ UNCHANGED <<view, localVars, inserts, db, issued, started, rankIn, bookmarkVars,
                 filterVars, notificationVars, appVars, profileVars,
                 messageVars>>

\* the awaited insert answers after the unmount: the row is written unless
\* the service refused it; the rollback's setState calls change nothing
HomeUnmountedInsert(w) ==
  /\ view = "unmounted"
  /\ w \in inserts
  /\ \E res \in {"ok", "error", "throw"} :
       /\ db' \in CASE res = "ok" -> {DbInsert(w.table, w.post)}
                    [] res = "error" -> {db}
                    [] OTHER -> {db, DbInsert(w.table, w.post)}
       /\ last' = Step(res, w.table, w.post, "dropped")
  /\ inserts' = inserts \ {w}
  /\ UNCHANGED <<view, localVars, fetches, issued, started, rankIn, bookmarkVars,
                 filterVars, notificationVars, appVars, profileVars,
                 messageVars>>

HomeUnmountNext ==
  \/ HomeNext
  \/ HomeUnmount
  \/ \E f \in fetches : HomeUnmountedFetch(f)
  \/ \E w \in inserts : HomeUnmountedInsert(w)

SpecHomeUnmount == HomeInit /\ [][HomeUnmountNext]_vars

\* Home some time after mounting: the mount's fetchPosts has shown the posts
\* and the memberships of a signed-in user, getCurrentUser has resolved or
\* is about to, and a change event of another user has just called
\* fetchPosts again; inserts and refetches are counted from here
HomeLoadedInit ==
  /\ view = "feed"
  /\ db \in {d \in DbStates : d.session = Me}
  /\ loading = FALSE
  /\ posts = HomePostsWithCounts(DbRows)
  /\ filteredPosts = <<>> /\ trendingPosts = <<>>
  /\ timeRange = "week"
  /\ userLikedPosts = DbMembership("likes")
  /\ userSharedPosts = DbMembership("shares")
  /\ inserts = {}
  /\ \/ /\ currentUserId = Me
        /\ fetches = {Fetch("posts", 0, "counts", Me, DbRows, {}, {})}
     \/ /\ currentUserId = null
        /\ fetches = {Fetch("user", 0, "user", Me, <<>>, {}, {}),
                      Fetch("posts", 0, "counts", Me, DbRows, {}, {})}
  /\ issued = 0 /\ started = 0
  /\ last = NoStep
  /\ rankIn = <<>>
  /\ NoBookmarks
  /\ NoFilters
  /\ NoNotifications
  /\ NoApp
  /\ NoProfile
  /\ NoMessages

SpecHomeLoaded == HomeLoadedInit /\ [][HomeNext]_vars

----------------------------------------------------------------------------
(* SearchComponents *)

\* the posts of the table: p1's content or author name contains the text the
\* user may type, p2's does not; the authors' complex_level; the categories
\* of the authors' user_complexes rows
SearchTexts == {"", "x"}
ContentHas(p, t) == t = "" \/ p = "p1"
PostLevel(p) == IF p = "p1" THEN 10 ELSE 60
AuthorCategories(p) == IF p = "p2" THEN {"appearance"} ELSE {}

\* applyFilters up to the category filter: the text search, when there is a
\* text, and the level range
TextAndLevel(ps, t, mn, mx) ==
  SelectSeq(ps, LAMBDA x : /\ ContentHas(x.id, t)
                           /\ PostLevel(x.id) >= mn /\ PostLevel(x.id) <= mx)

\* the category filter once the user_complexes queries have answered, the
\* queries of the posts in miss with no data
ByComplex(ps, cs, miss) ==
  SelectSeq(ps, LAMBDA x : x.id \notin miss /\ AuthorCategories(x.id) \cap cs # {})

\* applyFilters, run by the effect on [posts, searchText, selectedComplexes,
\* minComplexLevel, maxComplexLevel]: with no category selected it ends in
\* setFilteredPosts at once
ApplyFilters(ps, t, mn, mx, cs) ==
  IF cs = {} THEN TextAndLevel(ps, t, mn, mx) ELSE filteredPosts

\* with categories selected it awaits the user_complexes queries, holding the
\* list filtered so far (rows) and the categories of its render (liked)
FilterAwaits(n, ps, t, mn, mx, cs) ==
  IF cs = {} THEN {}
  ELSE {Fetch("filter", n, "categories", null, TextAndLevel(ps, t, mn, mx), cs, {})}

\* getCurrentUser resolves: setCurrentUserId and fetchUserInteractions(user.id)
SearchGetCurrentUser(f) ==
  /\ view = "search"
  /\ f \in fetches /\ f.kind = "user"
  /\ IF f.user # null
     THEN /\ currentUserId' = f.user
          /\ fetches' = (fetches \ {f}) \cup
               {Fetch("interactions", f.n, "members", f.user, <<>>,
                      DbMembership("likes"), DbMembership("shares"))}
     ELSE /\ currentUserId' = currentUserId
          /\ fetches' = fetches \ {f}
  /\ last' = NoStep
  /\ UNCHANGED <<view, loading, posts, filteredPosts, trendingPosts, timeRange,
                 userLikedPosts, userSharedPosts, inserts, db, issued, started,
                 rankIn, bookmarkVars, filterVars, notificationVars, appVars,
                 profileVars, messageVars>>

\* fetchUserInteractions: both membership queries have answered
SearchFetchUserInteractions(f) ==
  /\ view = "search"
  /\ f \in fetches /\ f.kind = "interactions"
  /\ \E likedOk \in BOOLEAN, sharedOk \in BOOLEAN :
       /\ userLikedPosts' = IF likedOk THEN f.liked ELSE userLikedPosts
       /\ userSharedPosts' = IF sharedOk THEN f.shared ELSE userSharedPosts
       /\ last' = Fetched(IF likedOk /\ sharedOk THEN "members" ELSE "nomembers",
                          IF likedOk THEN "shares" ELSE "likes", "p1")
  /\ fetches' = fetches \ {f}
  /\ UNCHANGED <<view, currentUserId, loading, posts, filteredPosts,
                 trendingPosts, timeRange, inserts, db, issued, started, rankIn, bookmarkVars,
                 filterVars, notificationVars, appVars, profileVars,
                 messageVars>>

\* fetchPosts: the queries have answered; setPosts runs the applyFilters effect
SearchFetchPosts(f) ==
  /\ view = "search"
  /\ f \in fetches /\ f.kind = "posts"
  /\ \E answer \in {"error", "nodata", "data", "partial"},
        q \in Posts, t \in Tables :
       /\ IF answer = "partial" THEN q \in {f.rows[i].id : i \in DOMAIN f.rows}
                                ELSE q = "p1" /\ t = "likes"
       /\ \/ /\ answer = "error"       \* if (error) return; also a thrown await
             /\ UNCHANGED <<posts, filteredPosts>>
          \/ /\ answer = "nodata"      \* if (!data) { setPosts([]); return; }
             /\ posts' = <<>>
          \/ /\ answer \in {"data", "partial"}   \* setPosts(postsWithCounts)
             /\ posts' = HomePostsWithCounts(
                            IF answer = "partial" THEN CountFailed(f.rows, q, t)
                                                  ELSE f.rows)
       /\ \/ /\ answer = "error"
             /\ fetches' = fetches \ {f}
          \/ /\ answer # "error"
             /\ filteredPosts' = ApplyFilters(posts', searchText, minComplexLevel,
                                              maxComplexLevel, selectedComplexes)
             /\ fetches' = (fetches \ {f}) \cup
                  FilterAwaits(f.n, posts', searchText, minComplexLevel,
                               maxComplexLevel, selectedComplexes)
       /\ last' = Fetched(answer, t, q)
  /\ loading' = FALSE
  /\ UNCHANGED <<view, currentUserId, trendingPosts, timeRange, userLikedPosts,
                 userSharedPosts, inserts, db, issued, started, rankIn, bookmarkVars,
                 filterVars, notificationVars, appVars, profileVars,
                 messageVars>>

\* handleLike(postId) up to its await
SearchHandleLike(p) ==
  /\ view = "search"
  /\ ~loading /\ p \in Ids(filteredPosts)
  /\ IF Unauthenticated(currentUserId)
     THEN /\ last' = Step("tap", "likes", p, "unauthenticated")
          /\ UNCHANGED <<localVars, inserts, issued>>
     ELSE IF AlreadyActed(userLikedPosts, p)
     THEN /\ last' = Step("tap", "likes", p, "already")
          /\ UNCHANGED <<localVars, inserts, issued>>
     ELSE /\ issued + started < MaxOps
          /\ userLikedPosts' = userLikedPosts \cup {p}
          /\ filteredPosts' = BumpLikes(filteredPosts, p, 1)
          /\ inserts' = inserts \cup
               {Insert(issued + 1, "likes", p, LikesOf(filteredPosts, p))}
          /\ issued' = issued + 1
          /\ last' = Step("tap", "likes", p, "sent")
          /\ UNCHANGED <<currentUserId, loading, posts, trendingPosts,
                         timeRange, userSharedPosts>>
  /\ UNCHANGED <<view, fetches, db, started, rankIn, bookmarkVars, filterVars,
                 notificationVars, appVars, profileVars, messageVars>>

\* handleShare(postId) up to its await
SearchHandleShare(p) ==
  /\ view = "search"
  /\ ~loading /\ p \in Ids(filteredPosts)
  /\ IF Unauthenticated(currentUserId)
     THEN /\ last' = Step("tap", "shares", p, "unauthenticated")
          /\ UNCHANGED <<localVars, inserts, issued>>
     ELSE IF AlreadyActed(userSharedPosts, p)
     THEN /\ last' = Step("tap", "shares", p, "already")
          /\ UNCHANGED <<localVars, inserts, issued>>
     ELSE /\ issued + started < MaxOps
          /\ userSharedPosts' = userSharedPosts \cup {p}
          /\ filteredPosts' = BumpShares(filteredPosts, p, 1)
          /\ inserts' = inserts \cup
               {Insert(issued + 1, "shares", p, SharesOf(filteredPosts, p))}
          /\ issued' = issued + 1
          /\ last' = Step("tap", "shares", p, "sent")
          /\ UNCHANGED <<currentUserId, loading, posts, trendingPosts,
                         timeRange, userLikedPosts>>
  /\ UNCHANGED <<view, fetches, db, started, rankIn, bookmarkVars, filterVars,
                 notificationVars, appVars, profileVars, messageVars>>

\* the branch `if (error)` of handleLike / handleShare
SearchRollback(w) ==
  /\ IF w.table = "likes"
     THEN /\ userLikedPosts' = userLikedPosts \ {w.post}
          /\ filteredPosts' = BumpLikes(filteredPosts, w.post, -1)
          /\ UNCHANGED userSharedPosts
     ELSE /\ userSharedPosts' = userSharedPosts \ {w.post}
          /\ filteredPosts' = BumpShares(filteredPosts, w.post, -1)
          /\ UNCHANGED userLikedPosts
  /\ UNCHANGED <<currentUserId, loading, posts, trendingPosts, timeRange>>

\* the catch block of handleLike / handleShare: console.error only
SearchCatch(w) == UNCHANGED localVars

\* the awaited insert answers {error: null}: the row is written
SearchInsertOk(w) ==
  /\ view = "search"
  /\ w \in inserts
  /\ db' = DbInsert(w.table, w.post)
  /\ inserts' = inserts \ {w}
  /\ last' = Step("ok", w.table, w.post, "kept")
  /\ UNCHANGED <<view, localVars, fetches, issued, started, rankIn, bookmarkVars,
                 filterVars, notificationVars, appVars, profileVars,
                 messageVars>>

\* the awaited insert answers {error}
SearchInsertError(w) ==
  /\ view = "search"
  /\ w \in inserts
  /\ SearchRollback(w)
  /\ inserts' = inserts \ {w}
  /\ last' = Step("error", w.table, w.post, "rolledback")
  /\ UNCHANGED <<view, fetches, db, issued, started, rankIn, bookmarkVars,
                 filterVars, notificationVars, appVars, profileVars,
                 messageVars>>

\* the awaited insert throws; the row may or may not have been written
SearchInsertThrow(w) ==
  /\ view = "search"
  /\ w \in inserts
  /\ SearchCatch(w)
  /\ db' \in {db, DbInsert(w.table, w.post)}
  /\ inserts' = inserts \ {w}
  /\ last' = Step("throw", w.table, w.post, "logged")
  /\ UNCHANGED <<view, fetches, issued, started, rankIn, bookmarkVars, filterVars,
                 notificationVars, appVars, profileVars, messageVars>>

\* SearchComponents just mounted: useEffect has called getCurrentUser() and
\* fetchPosts(), which begins with setLoading(true)
SearchInit ==
  /\ view = "search"
  /\ db \in DbStates
  /\ currentUserId = null
  /\ loading = TRUE
  /\ posts = <<>> /\ filteredPosts = <<>> /\ trendingPosts = <<>>
  /\ timeRange = "week"
  /\ userLikedPosts = {} /\ userSharedPosts = {}
  /\ inserts = {}
  /\ fetches = {Fetch("user", 0, "user", db.session, <<>>, {}, {}),
                Fetch("posts", 0, "counts", db.session, DbRows, {}, {})}
  /\ issued = 0 /\ started = 0
  /\ last = NoStep
  /\ rankIn = <<>>
  /\ NoBookmarks
  /\ NoFilters
  /\ NoNotifications
  /\ NoApp
  /\ NoProfile
  /\ NoMessages

SearchNext ==
  \/ \E f \in fetches : SearchGetCurrentUser(f)
  \/ \E f \in fetches : SearchFetchUserInteractions(f)
  \/ \E f \in fetches : SearchFetchPosts(f)
  \/ \E p \in Posts : SearchHandleLike(p)
  \/ \E p \in Posts : SearchHandleShare(p)
  \/ \E w \in inserts : SearchInsertOk(w)
  \/ \E w \in inserts : SearchInsertError(w)
  \/ \E w \in inserts : SearchInsertThrow(w)

SpecSearch == SearchInit /\ [][SearchNext]_vars

\* a filter state changes (how names the handler); the render runs the
\* applyFilters effect
SearchFiltersChange(how, t, mn, mx, cs) ==
  /\ view = "search"
  /\ <<t, cs, mn, mx>> # filterVars
  /\ issued + started < MaxOps
  /\ started' = started + 1
  /\ searchText' = t /\ selectedComplexes' = cs
  /\ minComplexLevel' = mn /\ maxComplexLevel' = mx
  /\ filteredPosts' = ApplyFilters(posts, t, mn, mx, cs)
  /\ fetches' = fetches \cup FilterAwaits(started + 1, posts, t, mn, mx, cs)
  /\ last' = Step("filter", "likes", "p1", how)
  /\ UNCHANGED <<view, currentUserId, loading, posts, trendingPosts, timeRange,
                 userLikedPosts, userSharedPosts, inserts, db, issued, rankIn,
                 bookmarkVars, notificationVars, appVars, profileVars,
                 messageVars>>

\* onChangeText={setSearchText}, and the button that empties the box
SearchSetSearchText(t) ==
  SearchFiltersChange("text", t, minComplexLevel, maxComplexLevel, selectedComplexes)

\* setMinComplexLevel(Math.max(0, Math.min(100, value)))
SearchSetMinComplexLevel(v) ==
  SearchFiltersChange("min", searchText, v, maxComplexLevel, selectedComplexes)

\* setMaxComplexLevel(Math.max(0, Math.min(100, value)))
SearchSetMaxComplexLevel(v) ==
  SearchFiltersChange("max", searchText, minComplexLevel, v, selectedComplexes)

\* toggleComplexCategory(category)
SearchToggleComplexCategory(c) ==
  SearchFiltersChange("category", searchText, minComplexLevel, maxComplexLevel,
                      IF c \in selectedComplexes THEN selectedComplexes \ {c}
                      ELSE selectedComplexes \cup {c})

\* clearFilters
SearchClearFilters == SearchFiltersChange("clear", "", 0, 100, {})

\* applyFilters after its awaited user_complexes queries: setFilteredPosts
SearchApplyFiltersDone(f) ==
  /\ view = "search"
  /\ f \in fetches /\ f.kind = "filter"
  /\ \E miss \in SUBSET Posts :
       filteredPosts' = ByComplex(f.rows, f.liked, miss)
  /\ fetches' = fetches \ {f}
  /\ last' = Step("filter", "likes", "p1", "categories")
  /\ UNCHANGED <<view, currentUserId, loading, posts, trendingPosts, timeRange,
                 userLikedPosts, userSharedPosts, inserts, db, issued, started,
                 rankIn, bookmarkVars, filterVars, notificationVars, appVars,
                 profileVars, messageVars>>

SearchFilterNext ==
  \/ SearchNext
  \/ \E t \in SearchTexts : SearchSetSearchText(t)
  \/ \E v \in {0, 50} : SearchSetMinComplexLevel(v)
  \/ \E v \in {30, 100} : SearchSetMaxComplexLevel(v)
  \/ SearchToggleComplexCategory("appearance")
  \/ SearchClearFilters
  \/ \E f \in fetches : SearchApplyFiltersDone(f)

SpecSearchFilter == SearchInit /\ [][SearchFilterNext]_vars

----------------------------------------------------------------------------
(* TrendingComponents *)

\* slice(0, 20)
TopN == 20

\* a window that ignores 'month'
DaysAgoNoMonth(range) == IF range = "day" THEN 1 ELSE 7

\* let daysAgo = 7; if (timeRange === 'day') daysAgo = 1; if (timeRange === 'month') daysAgo = 30
DaysAgo(range) ==
  CASE range = "day" -> 1
    [] range = "month" -> 30
    [] OTHER -> 7

\* a mis-weighted score
EngagementScoreUnweighted(likes, replies, shares) ==
  OrZero(likes) + OrZero(replies) + OrZero(shares)

\* (likesCount || 0) * 3 + (repliesCount || 0) * 2 + (sharesCount || 0) * 5
EngagementScore(likes, replies, shares) ==
  OrZero(likes) * 3 + OrZero(replies) * 2 + OrZero(shares) * 5

\* postsData.map(async post => ({...post, likes_count, shares_count, replies_count, engagement_score}))
PostsWithEngagement(rows) ==
  [i \in DOMAIN rows |->
     [id |-> rows[i].id,
      likes_count |-> OrZero(rows[i].likes),
      shares_count |-> OrZero(rows[i].shares),
      replies_count |-> OrZero(rows[i].replies),
      engagement_score |->
        EngagementScore(rows[i].likes, rows[i].replies, rows[i].shares)]]

\* an insertion that puts a post in front of the posts it ties with
SortedInsertUnstable(t, x) ==
  LET k == Cardinality({i \in DOMAIN t :
                          t[i].engagement_score > x.engagement_score})
  IN  SubSeq(t, 1, k) \o <<x>> \o SubSeq(t, k + 1, Len(t))

\* one step of the stable sort: x, which came after every element of the
\* sorted list t, goes behind the elements that do not sort after it
SortedInsert(t, x) ==
  LET k == Cardinality({i \in DOMAIN t :
                          t[i].engagement_score >= x.engagement_score})
  IN  SubSeq(t, 1, k) \o <<x>> \o SubSeq(t, k + 1, Len(t))

\* .sort((a, b) => b.engagement_score - a.engagement_score); Array.prototype.sort
\* is stable (ECMAScript 2019)
RECURSIVE SortByEngagement(_)
SortByEngagement(ps) ==
  IF ps = <<>> THEN <<>>
  ELSE SortedInsert(SortByEngagement(SubSeq(ps, 1, Len(ps) - 1)), ps[Len(ps)])

\* a slice that keeps everything
SliceAll(ps, n) == ps

\* .slice(0, n)
Slice(ps, n) == SubSeq(ps, 1, IF Len(ps) < n THEN Len(ps) ELSE n)

\* what fetchTrendingPosts hands to setTrendingPosts
Ranked(rows) == Slice(SortByEngagement(PostsWithEngagement(rows)), TopN)

\* getCurrentUser resolves: setCurrentUserId and fetchUserLikes(user.id)
TrendingGetCurrentUser(f) ==
  /\ view = "trending"
  /\ f \in fetches /\ f.kind = "user"
  /\ IF f.user # null
     THEN /\ currentUserId' = f.user
          /\ fetches' = (fetches \ {f}) \cup
               {Fetch("interactions", f.n, "members", f.user, <<>>,
                      DbMembership("likes"), {})}
     ELSE /\ currentUserId' = currentUserId
          /\ fetches' = fetches \ {f}
  /\ last' = NoStep
  /\ UNCHANGED <<view, loading, posts, filteredPosts, trendingPosts, timeRange,
                 userLikedPosts, userSharedPosts, inserts, db, issued, started,
                 rankIn, bookmarkVars, filterVars, notificationVars, appVars,
                 profileVars, messageVars>>

\* fetchUserLikes: the membership query has answered
TrendingFetchUserLikes(f) ==
  /\ view = "trending"
  /\ f \in fetches /\ f.kind = "interactions"
  /\ \E likedOk \in BOOLEAN :
       /\ userLikedPosts' = IF likedOk THEN f.liked ELSE userLikedPosts
       /\ last' = Fetched(IF likedOk THEN "members" ELSE "nomembers", "likes", "p1")
  /\ fetches' = fetches \ {f}
  /\ UNCHANGED <<view, currentUserId, loading, posts, filteredPosts,
                 trendingPosts, timeRange, userSharedPosts, inserts, db, issued,
                 started, rankIn, bookmarkVars, filterVars, notificationVars,
                 appVars, profileVars, messageVars>>

\* what the effect on [timeRange] sends: getCurrentUser() and
\* fetchTrendingPosts() with the time range r of its render
TrendingEffectFetches(n, r) ==
  {Fetch("user", n, "user", db.session, <<>>, {}, {}),
   Fetch("trending", n, "counts", db.session, Since(DbRows, DaysAgo(r)), {}, {})}

\* setTimeRange(r) from a time range button (rendered when not loading); the
\* effect on [timeRange] calls getCurrentUser() and fetchTrendingPosts(),
\* which begins with setLoading(true) and sends the posts query
TrendingSetTimeRange(r) ==
  /\ view = "trending"
  /\ ~loading /\ r # timeRange
  /\ issued + started < MaxOps
  /\ started' = started + 1
  /\ timeRange' = r
  /\ loading' = TRUE
  /\ fetches' = fetches \cup TrendingEffectFetches(started + 1, r)
  /\ last' = Step("range", "likes", "p1", r)
  /\ UNCHANGED <<view, currentUserId, posts, filteredPosts, trendingPosts,
                 userLikedPosts, userSharedPosts, inserts, db, issued, rankIn, bookmarkVars,
                 filterVars, notificationVars, appVars, profileVars,
                 messageVars>>

\* a second time range button pressed right after the first: the render of
\* setTimeRange still shows the buttons, since loading becomes true only
\* when the effect of that render runs after the commit; the press runs
\* that effect and then renders r, whose effect runs in turn
TrendingSetTimeRangeAgain(r) ==
  /\ view = "trending"
  /\ last.op = "range" /\ r # timeRange
  /\ issued + started < MaxOps
  /\ started' = started + 1
  /\ timeRange' = r
  /\ fetches' = fetches \cup TrendingEffectFetches(started + 1, r)
  /\ last' = Step("range", "likes", "p1", r)
  /\ UNCHANGED <<view, currentUserId, loading, posts, filteredPosts,
                 trendingPosts, userLikedPosts, userSharedPosts, inserts, db,
                 issued, rankIn, bookmarkVars, filterVars, notificationVars,
                 appVars, profileVars, messageVars>>

\* fetchTrendingPosts: the posts query and the count queries have answered
TrendingFetchTrendingPosts(f) ==
  /\ view = "trending"
  /\ f \in fetches /\ f.kind = "trending"
  /\ \E answer \in {"error", "nodata", "data", "partial"},
        q \in Posts, t \in Tables :
       /\ IF answer = "partial" THEN q \in {f.rows[i].id : i \in DOMAIN f.rows}
                                ELSE q = "p1" /\ t = "likes"
       /\ trendingPosts' =
            CASE answer = "error" -> trendingPosts   \* if (error) return; or a throw
              [] answer = "nodata" -> <<>>            \* setTrendingPosts([])
              [] answer = "partial" -> Ranked(CountFailed(f.rows, q, t))
              [] OTHER -> Ranked(f.rows)              \* setTrendingPosts(sorted)
       /\ last' = Fetched(answer, t, q)
  /\ loading' = FALSE
  /\ fetches' = fetches \ {f}
  /\ UNCHANGED <<view, currentUserId, posts, filteredPosts, timeRange,
                 userLikedPosts, userSharedPosts, inserts, db, issued, started,
                 rankIn, bookmarkVars, filterVars, notificationVars, appVars,
                 profileVars, messageVars>>

\* handleLike(postId) up to its await
TrendingHandleLike(p) ==
  /\ view = "trending"
  /\ ~loading /\ p \in Ids(trendingPosts)
  /\ IF Unauthenticated(currentUserId)
     THEN /\ last' = Step("tap", "likes", p, "unauthenticated")
          /\ UNCHANGED <<localVars, inserts, issued>>
     ELSE IF AlreadyActed(userLikedPosts, p)
     THEN /\ last' = Step("tap", "likes", p, "already")
          /\ UNCHANGED <<localVars, inserts, issued>>
     ELSE /\ issued + started < MaxOps
          /\ userLikedPosts' = userLikedPosts \cup {p}
          /\ trendingPosts' = BumpTrending(trendingPosts, p, 1)
          /\ inserts' = inserts \cup
               {Insert(issued + 1, "likes", p, LikesOf(trendingPosts, p))}
          /\ issued' = issued + 1
          /\ last' = Step("tap", "likes", p, "sent")
          /\ UNCHANGED <<currentUserId, loading, posts, filteredPosts,
                         timeRange, userSharedPosts>>
  /\ UNCHANGED <<view, fetches, db, started, rankIn, bookmarkVars, filterVars,
                 notificationVars, appVars, profileVars, messageVars>>

\* the branch `if (error)` of handleLike
TrendingRollback(w) ==
  /\ userLikedPosts' = userLikedPosts \ {w.post}
  /\ trendingPosts' = BumpTrending(trendingPosts, w.post, -1)
  /\ UNCHANGED <<currentUserId, loading, posts, filteredPosts, timeRange,
                 userSharedPosts>>

\* the catch block of handleLike: console.error only
TrendingCatch(w) == UNCHANGED localVars

\* the awaited insert answers {error: null}: the row is written
TrendingInsertOk(w) ==
  /\ view = "trending"
  /\ w \in inserts
  /\ db' = DbInsert(w.table, w.post)
  /\ inserts' = inserts \ {w}
  /\ last' = Step("ok", w.table, w.post, "kept")
  /\ UNCHANGED <<view, localVars, fetches, issued, started, rankIn, bookmarkVars,
                 filterVars, notificationVars, appVars, profileVars,
                 messageVars>>

\* the awaited insert answers {error}
TrendingInsertError(w) ==
  /\ view = "trending"
  /\ w \in inserts
  /\ TrendingRollback(w)
  /\ inserts' = inserts \ {w}
  /\ last' = Step("error", w.table, w.post, "rolledback")
  /\ UNCHANGED <<view, fetches, db, issued, started, rankIn, bookmarkVars,
                 filterVars, notificationVars, appVars, profileVars,
                 messageVars>>

\* the awaited insert throws; the row may or may not have been written
TrendingInsertThrow(w) ==
  /\ view = "trending"
  /\ w \in inserts
  /\ TrendingCatch(w)
  /\ db' \in {db, DbInsert(w.table, w.post)}
  /\ inserts' = inserts \ {w}
  /\ last' = Step("throw", w.table, w.post, "logged")
  /\ UNCHANGED <<view, fetches, issued, started, rankIn, bookmarkVars, filterVars,
                 notificationVars, appVars, profileVars, messageVars>>

\* TrendingComponents just mounted with timeRange 'week': the effect has
\* called getCurrentUser() and fetchTrendingPosts()
TrendingInit ==
  /\ view = "trending"
  /\ db \in DbStates
  /\ currentUserId = null
  /\ loading = TRUE
  /\ posts = <<>> /\ filteredPosts = <<>> /\ trendingPosts = <<>>
  /\ timeRange = "week"
  /\ userLikedPosts = {} /\ userSharedPosts = {}
  /\ inserts = {}
  /\ fetches = {Fetch("user", 0, "user", db.session, <<>>, {}, {}),
                Fetch("trending", 0, "counts", db.session,
                      Since(DbRows, DaysAgo("week")), {}, {})}
  /\ issued = 0 /\ started = 0
  /\ last = NoStep
  /\ rankIn = <<>>
  /\ NoBookmarks
  /\ NoFilters
  /\ NoNotifications
  /\ NoApp
  /\ NoProfile
  /\ NoMessages

TrendingNext ==
  \/ \E f \in fetches : TrendingGetCurrentUser(f)
  \/ \E f \in fetches : TrendingFetchUserLikes(f)
  \/ \E r \in {"day", "week", "month"} : TrendingSetTimeRange(r)
  \/ \E r \in TimeRanges : TrendingSetTimeRangeAgain(r)
  \/ \E f \in fetches : TrendingFetchTrendingPosts(f)
  \/ \E p \in Posts : TrendingHandleLike(p)
  \/ \E w \in inserts : TrendingInsertOk(w)
  \/ \E w \in inserts : TrendingInsertError(w)
  \/ \E w \in inserts : TrendingInsertThrow(w)

SpecTrending == TrendingInit /\ [][TrendingNext]_vars

----------------------------------------------------------------------------
(* The ranking computation of fetchTrendingPosts on larger tables *)

\* ages in days around the three windows
AgeList == <<0, 1, 2, 7, 8, 10, 30, 31>>

\* a posts table of n rows, newest first by id, with count answers drawn
\* from seed k (some of them null) and ages spread by c
RankTable(n, k, c) ==
  [i \in 1..n |->
     Row(i,
         AgeList[((i * c) % Len(AgeList)) + 1],
         IF (i + k) % 5 = 0 THEN {} ELSE Count((i * k) % 3),
         IF (i + k) % 7 = 0 THEN {} ELSE Count((i * i + k) % 3),
         IF (i + k) % 4 = 0 THEN {} ELSE Count((i + k) % 2))]

\* posts A(likes=10, replies=2, shares=1), B(2, 0, 10), C(0, 0, 0), all new
ExampleTable ==
  <<Row(1, 0, Count(10), Count(1), Count(2)),
    Row(2, 0, Count(2), Count(10), Count(0)),
    Row(3, 0, Count(0), Count(0), Count(0))>>

RankTables ==
  {RankTable(n, k, c) : n \in 0..MaxRows, k \in 0..MaxSeed, c \in {0, 1, 3}}
    \cup {ExampleTable}

\* fetchTrendingPosts from the posts query to setTrendingPosts, on rankIn
RankFetchTrendingPosts ==
  /\ view = "rank"
  /\ loading
  /\ trendingPosts' = Ranked(Since(rankIn, DaysAgo(timeRange)))
  /\ loading' = FALSE
  /\ UNCHANGED <<view, currentUserId, posts, filteredPosts, timeRange,
                 userLikedPosts, userSharedPosts, inserts, fetches, db, issued,
                 started, last, rankIn, bookmarkVars, filterVars,
                 notificationVars, appVars, profileVars, messageVars>>

RankInit ==
  /\ view = "rank"
  /\ NoBookmarks
  /\ NoFilters
  /\ NoNotifications
  /\ NoApp
  /\ NoProfile
  /\ NoMessages
  /\ rankIn \in RankTables
  /\ timeRange \in TimeRanges
  /\ loading = TRUE
  /\ trendingPosts = <<>>
  /\ db = [session |-> null,
           others |-> [t \in Tables |-> [p \in Posts |-> 0]],
           mine |-> [t \in Tables |-> [p \in Posts |-> 0]]]
  /\ currentUserId = null
  /\ posts = <<>> /\ filteredPosts = <<>>
  /\ userLikedPosts = {} /\ userSharedPosts = {}
  /\ inserts = {} /\ fetches = {}
  /\ issued = 0 /\ started = 0
  /\ last = NoStep

RankNext == RankFetchTrendingPosts

SpecRank == RankInit /\ [][RankNext]_vars

----------------------------------------------------------------------------
(* Bookmarks *)

\* a delete awaited by removeBookmark's confirm handler
Delete(n, p) == [n |-> n, post |-> p]

\* a filter that drops every bookmark
RemoveFromListAll(ps, p) == <<>>

\* prev.filter(p => p.id !== postId)
RemoveFromList(ps, p) == SelectSeq(ps, LAMBDA x : x.id # p)

\* the bookmarks query joined with the posts and the count queries
BookmarkRows == SelectSeq(DbRows, LAMBDA r : r.id \in bookmarks)

\* getCurrentUser resolves
BookmarksGetCurrentUser(f) ==
  /\ view = "bookmarks"
  /\ f \in fetches /\ f.kind = "user"
  /\ currentUserId' = IF f.user # null THEN f.user ELSE currentUserId
  /\ fetches' = fetches \ {f}
  /\ last' = NoStep
  /\ UNCHANGED <<view, loading, posts, filteredPosts, trendingPosts, timeRange,
                 userLikedPosts, userSharedPosts, inserts, db, issued, started,
                 rankIn, bookmarkVars, filterVars, notificationVars, appVars,
                 profileVars, messageVars>>

\* fetchBookmarks: getUser and the queries have answered
BookmarksFetchBookmarks(f) ==
  /\ view = "bookmarks"
  /\ f \in fetches /\ f.kind = "bookmarks"
  /\ \E answer \in {"error", "nodata", "data"} :
       /\ bookmarkedPosts' =
            CASE f.user = null -> bookmarkedPosts     \* if (!user) return
              [] answer = "error" -> bookmarkedPosts  \* if (error) return; a throw
              [] answer = "nodata" -> <<>>            \* setBookmarkedPosts([])
              [] OTHER -> HomePostsWithCounts(f.rows) \* setBookmarkedPosts(postsWithCounts)
       /\ last' = Fetched(IF f.user = null THEN "nouser" ELSE answer, "likes", "p1")
  /\ loading' = FALSE
  /\ fetches' = fetches \ {f}
  /\ UNCHANGED <<view, currentUserId, posts, filteredPosts, trendingPosts,
                 timeRange, userLikedPosts, userSharedPosts, inserts, db, issued,
                 started, rankIn, deletes, bookmarks, filterVars,
                 notificationVars, appVars, profileVars, messageVars>>

\* removeBookmark(postId) from a listed post, and the answer to its dialog:
\* cancel, or the confirm handler up to its awaited delete
BookmarksRemoveBookmark(p) ==
  /\ view = "bookmarks"
  /\ ~loading /\ p \in Ids(bookmarkedPosts)
  /\ IF Unauthenticated(currentUserId)
     THEN /\ last' = Step("remove", "bookmarks", p, "unauthenticated")
          /\ UNCHANGED <<deletes, issued>>
     ELSE \/ /\ last' = Step("remove", "bookmarks", p, "cancelled")
             /\ UNCHANGED <<deletes, issued>>
          \/ /\ issued < MaxOps
             /\ deletes' = deletes \cup {Delete(issued + 1, p)}
             /\ issued' = issued + 1
             /\ last' = Step("remove", "bookmarks", p, "sent")
  /\ UNCHANGED <<view, localVars, inserts, fetches, db, started, rankIn,
                 bookmarkedPosts, bookmarks, filterVars, notificationVars,
                 appVars, profileVars, messageVars>>

\* the awaited delete answers {error: null}: the row is gone and the post is
\* filtered out of the list
BookmarksDeleteOk(d) ==
  /\ view = "bookmarks"
  /\ d \in deletes
  /\ bookmarks' = bookmarks \ {d.post}
  /\ bookmarkedPosts' = RemoveFromList(bookmarkedPosts, d.post)
  /\ deletes' = deletes \ {d}
  /\ last' = Step("ok", "bookmarks", d.post, "removed")
  /\ UNCHANGED <<view, localVars, inserts, fetches, db, issued, started, rankIn,
                 filterVars, notificationVars, appVars, profileVars,
                 messageVars>>

\* the awaited delete answers {error}: an alert and return
BookmarksDeleteError(d) ==
  /\ view = "bookmarks"
  /\ d \in deletes
  /\ deletes' = deletes \ {d}
  /\ last' = Step("error", "bookmarks", d.post, "kept")
  /\ UNCHANGED <<view, localVars, inserts, fetches, db, issued, started, rankIn,
                 bookmarkedPosts, bookmarks, filterVars, notificationVars,
                 appVars, profileVars, messageVars>>

\* the awaited delete throws: an alert; the row may or may not be gone
BookmarksDeleteThrow(d) ==
  /\ view = "bookmarks"
  /\ d \in deletes
  /\ bookmarks' \in {bookmarks, bookmarks \ {d.post}}
  /\ deletes' = deletes \ {d}
  /\ last' = Step("throw", "bookmarks", d.post, "kept")
  /\ UNCHANGED <<view, localVars, inserts, fetches, db, issued, started, rankIn,
                 bookmarkedPosts, filterVars, notificationVars, appVars,
                 profileVars, messageVars>>

\* Bookmarks just mounted: useEffect has called getCurrentUser() and
\* fetchBookmarks()
BookmarksInit ==
  /\ view = "bookmarks"
  /\ db \in DbStates
  /\ bookmarks \in SUBSET Posts
  /\ currentUserId = null
  /\ loading = TRUE
  /\ bookmarkedPosts = <<>>
  /\ deletes = {}
  /\ posts = <<>> /\ filteredPosts = <<>> /\ trendingPosts = <<>>
  /\ timeRange = "week"
  /\ userLikedPosts = {} /\ userSharedPosts = {}
  /\ inserts = {}
  /\ fetches = {Fetch("user", 0, "user", db.session, <<>>, {}, {}),
                Fetch("bookmarks", 0, "counts", db.session, BookmarkRows, {}, {})}
  /\ issued = 0 /\ started = 0
  /\ last = NoStep
  /\ rankIn = <<>>
  /\ NoFilters
  /\ NoNotifications
  /\ NoApp
  /\ NoProfile
  /\ NoMessages

BookmarksNext ==
  \/ \E f \in fetches : BookmarksGetCurrentUser(f)
  \/ \E f \in fetches : BookmarksFetchBookmarks(f)
  \/ \E p \in Posts : BookmarksRemoveBookmark(p)
  \/ \E d \in deletes : BookmarksDeleteOk(d)
  \/ \E d \in deletes : BookmarksDeleteError(d)
  \/ \E d \in deletes : BookmarksDeleteThrow(d)

SpecBookmarks == BookmarksInit /\ [][BookmarksNext]_vars

----------------------------------------------------------------------------
(* NotificationsComponents *)

Notification(id, read) == [id |-> id, is_read |-> read]

\* notifications.filter(n => !n.is_read).length
Unread(ns) == Cardinality({i \in DOMAIN ns : ~ns[i].is_read})

\* prev.map(n => n.id === notificationId ? {...n, is_read: true} : n); with
\* every id, prev.map(n => ({...n, is_read: true}))
MarkRead(ns, ids) ==
  [i \in DOMAIN ns |-> IF ns[i].id \in ids THEN Notification(ns[i].id, TRUE)
                       ELSE ns[i]]

\* Math.max(0, prev - 1)
FloorDecrement(n) == IF n - 1 < 0 THEN 0 ELSE n - 1

\* the notifications tables a mount may find
NotificationTables ==
  {<<>>} \cup {<<Notification("n1", r)>> : r \in BOOLEAN}
         \cup {<<Notification("n2", FALSE), Notification("n1", r)>> : r \in BOOLEAN}

\* an awaited update: of the row id, or of every unread row of the user
Update(n, id) == [n |-> n, id |-> id]

\* fetchNotifications is called, by the mount effect or by the channel
\* callback on an event of the notifications table
NotificationsFetchNotifications ==
  /\ view = "notifications"
  /\ issued + started < MaxOps
  /\ started' = started + 1
  /\ fetches' = fetches \cup
       {Fetch("notifications", started + 1, "rows", db.session,
              notificationRows, {}, {})}
  /\ last' = Step("event", "notifications", "p1", "refetch")
  /\ UNCHANGED <<view, localVars, inserts, db, issued, rankIn, bookmarkVars,
                 filterVars, notificationVars, appVars, profileVars,
                 messageVars>>

\* a notification for the user is inserted by the service
NotificationsArrives ==
  /\ view = "notifications"
  /\ issued + started < MaxOps
  /\ "n2" \notin Ids(notificationRows)
  /\ started' = started + 1
  /\ notificationRows' = <<Notification("n2", FALSE)>> \o notificationRows
  /\ last' = Step("event", "notifications", "p1", "insert")
  /\ UNCHANGED <<view, localVars, inserts, fetches, db, issued, rankIn,
                 bookmarkVars, filterVars, notifications, unreadCount, updates,
                 appVars, profileVars, messageVars>>

\* fetchNotifications: getUser and the query have answered
NotificationsFetched(f) ==
  /\ view = "notifications"
  /\ f \in fetches /\ f.kind = "notifications"
  /\ \E answer \in {"error", "nodata", "data"} :
       LET rows == IF answer = "nodata" THEN <<>> ELSE f.rows   \* data || []
       IN  /\ IF f.user = null \/ answer = "error"
              THEN UNCHANGED <<notifications, unreadCount>>
              ELSE /\ notifications' = rows
                   /\ unreadCount' = Unread(rows)
           /\ last' = Fetched(IF f.user = null THEN "nouser" ELSE answer,
                              "likes", "p1")
  /\ loading' = FALSE
  /\ fetches' = fetches \ {f}
  /\ UNCHANGED <<view, currentUserId, posts, filteredPosts, trendingPosts,
                 timeRange, userLikedPosts, userSharedPosts, inserts, db, issued,
                 started, rankIn, bookmarkVars, filterVars, updates,
                 notificationRows, appVars, profileVars, messageVars>>

\* markAsRead(id) from a listed notification (directly, or first thing in
\* openPost), up to its awaited update
NotificationsMarkAsRead(id) ==
  /\ view = "notifications"
  /\ ~loading /\ id \in Ids(notifications)
  /\ issued + started < MaxOps
  /\ issued' = issued + 1
  /\ updates' = updates \cup {Update(issued + 1, id)}
  /\ last' = Step("tap", "notifications", id, "sent")
  /\ UNCHANGED <<view, localVars, inserts, fetches, db, started, rankIn,
                 bookmarkVars, filterVars, notifications, unreadCount,
                 notificationRows, appVars, profileVars, messageVars>>

\* markAllAsRead from the button shown while unreadCount > 0, up to its
\* awaited update (getUser answers first; without a user it returns)
NotificationsMarkAllAsRead ==
  /\ view = "notifications"
  /\ ~loading /\ unreadCount > 0
  /\ issued + started < MaxOps
  /\ issued' = issued + 1
  /\ IF db.session = null
     THEN /\ last' = Step("tap", "notifications", "all", "nouser")
          /\ UNCHANGED updates
     ELSE /\ last' = Step("tap", "notifications", "all", "sent")
          /\ updates' = updates \cup {Update(issued + 1, "all")}
  /\ UNCHANGED <<view, localVars, inserts, fetches, db, started, rankIn,
                 bookmarkVars, filterVars, notifications, unreadCount,
                 notificationRows, appVars, profileVars, messageVars>>

\* the awaited update has answered
NotificationsUpdated(u) ==
  /\ view = "notifications"
  /\ u \in updates
  /\ LET ids == IF u.id = "all" THEN Ids(notificationRows) \cup Ids(notifications)
                ELSE {u.id}
     IN  \E answer \in {"ok", "error", "throw"} :
           /\ IF answer = "ok"
              THEN /\ notificationRows' = MarkRead(notificationRows, ids)
                   /\ notifications' = MarkRead(notifications, ids)
                   /\ unreadCount' = IF u.id = "all" THEN 0   \* setUnreadCount(0)
                                     ELSE FloorDecrement(unreadCount)
              ELSE /\ notificationRows' \in
                        IF answer = "throw"
                        THEN {notificationRows, MarkRead(notificationRows, ids)}
                        ELSE {notificationRows}
                   /\ UNCHANGED <<notifications, unreadCount>>
           /\ last' = Step(answer, "notifications", u.id, "done")
  /\ updates' = updates \ {u}
  /\ UNCHANGED <<view, localVars, inserts, fetches, db, issued, started, rankIn,
                 bookmarkVars, filterVars, appVars, profileVars, messageVars>>

\* NotificationsComponents just mounted: the effect has called
\* fetchNotifications() and subscribed to the notifications table
NotificationsInit ==
  /\ view = "notifications"
  /\ db \in {d \in DbStates : \A t \in Tables, p \in Posts :
                                d.others[t][p] = 0 /\ d.mine[t][p] = 0}
  /\ notificationRows \in NotificationTables
  /\ notifications = <<>> /\ unreadCount = 0 /\ updates = {}
  /\ currentUserId = null
  /\ loading = TRUE
  /\ posts = <<>> /\ filteredPosts = <<>> /\ trendingPosts = <<>>
  /\ timeRange = "week"
  /\ userLikedPosts = {} /\ userSharedPosts = {}
  /\ inserts = {}
  /\ fetches = {Fetch("notifications", 0, "rows", db.session, notificationRows,
                      {}, {})}
  /\ issued = 0 /\ started = 0
  /\ last = NoStep
  /\ rankIn = <<>>
  /\ NoBookmarks
  /\ NoFilters
  /\ NoApp
  /\ NoProfile
  /\ NoMessages

NotificationsNext ==
  \/ NotificationsFetchNotifications
  \/ NotificationsArrives
  \/ \E f \in fetches : NotificationsFetched(f)
  \/ \E id \in {"n1", "n2"} : NotificationsMarkAsRead(id)
  \/ NotificationsMarkAllAsRead
  \/ \E u \in updates : NotificationsUpdated(u)

SpecNotifications == NotificationsInit /\ [][NotificationsNext]_vars

----------------------------------------------------------------------------
(* App: the session, the tabs and the unread badges *)

TabTypes == {"home", "search", "bookmarks", "notifications", "messages", "profile"}

\* an awaited call of App: getSession ("session"), the notifications count
\* and the messages counts of fetchUnreadCounts, signOut ("signout"); answer
\* is what the service computed when it was sent
Await(kind, n, answer) == [kind |-> kind, n |-> n, answer |-> answer]

\* fetchUnreadCounts(userId) up to its first await
FetchUnreadCounts(n) == {Await("notifications", n, unreadOnService.notifications)}

\* checkAuth() from the 30 s interval set while isLoggedIn
AppCheckAuth ==
  /\ view = "app" /\ isLoggedIn
  /\ issued + started < MaxOps
  /\ started' = started + 1
  /\ appAwaits' = appAwaits \cup {Await("session", started + 1, 0)}
  /\ last' = Step("tick", "likes", "p1", "checkAuth")
  /\ UNCHANGED <<view, localVars, inserts, fetches, db, issued, rankIn,
                 bookmarkVars, filterVars, notificationVars, isLoggedIn,
                 activeTab, unreadNotifications, unreadMessages, unreadOnService,
                 profileVars, messageVars>>

\* checkAuth after getSession: setIsLoggedIn(!!session), fetchUnreadCounts
\* when there is a session, setLoading(false)
AppCheckAuthDone(c) ==
  /\ view = "app"
  /\ c \in appAwaits /\ c.kind = "session"
  /\ isLoggedIn' = (db.session # null)
  /\ appAwaits' = (appAwaits \ {c}) \cup
       (IF db.session # null THEN FetchUnreadCounts(c.n) ELSE {})
  /\ loading' = FALSE
  /\ last' = Step("checkAuth", "likes", "p1", "done")
  /\ UNCHANGED <<view, currentUserId, posts, filteredPosts, trendingPosts,
                 timeRange, userLikedPosts, userSharedPosts, inserts, fetches,
                 db, issued, started, rankIn, bookmarkVars, filterVars,
                 notificationVars, activeTab, unreadNotifications,
                 unreadMessages, unreadOnService, profileVars, messageVars>>

\* fetchUnreadCounts after the notifications count: setUnreadNotifications,
\* then the conversations query and the messages counts are sent; a throw
\* ends the call
AppFetchUnreadCountsNotifications(c) ==
  /\ view = "app"
  /\ c \in appAwaits /\ c.kind = "notifications"
  /\ \E answer \in {"count", "null", "throw"} :
       /\ unreadNotifications' =
            CASE answer = "count" -> c.answer
              [] answer = "null" -> 0               \* notificationsCount || 0
              [] OTHER -> unreadNotifications
       /\ appAwaits' = (appAwaits \ {c}) \cup
            (IF answer = "throw" THEN {}
             ELSE {Await("messages", c.n, unreadOnService.messages)})
       /\ last' = Step("counts", "notifications", "p1", answer)
  /\ UNCHANGED <<view, localVars, inserts, fetches, db, issued, started, rankIn,
                 bookmarkVars, filterVars, notificationVars, isLoggedIn,
                 activeTab, unreadMessages, unreadOnService, profileVars,
                 messageVars>>

\* fetchUnreadCounts after the conversations query and the messages counts:
\* setUnreadMessages(totalUnread) when conversations is not null
AppFetchUnreadCountsMessages(c) ==
  /\ view = "app"
  /\ c \in appAwaits /\ c.kind = "messages"
  /\ \E answer \in {"count", "null", "throw"} :
       /\ unreadMessages' = IF answer = "count" THEN c.answer ELSE unreadMessages
       /\ last' = Step("counts", "messages", "p1", answer)
  /\ appAwaits' = appAwaits \ {c}
  /\ UNCHANGED <<view, localVars, inserts, fetches, db, issued, started, rankIn,
                 bookmarkVars, filterVars, notificationVars, isLoggedIn,
                 activeTab, unreadNotifications, unreadOnService, profileVars,
                 messageVars>>

\* the bottom navigation, rendered when logged in: setActiveTab(t)
AppSetActiveTab(t) ==
  /\ view = "app" /\ ~loading /\ isLoggedIn
  /\ t # activeTab
  /\ issued + started < MaxOps
  /\ started' = started + 1
  /\ activeTab' = t
  /\ last' = Step("tab", "likes", "p1", t)
  /\ UNCHANGED <<view, localVars, inserts, fetches, db, issued, rankIn,
                 bookmarkVars, filterVars, notificationVars, isLoggedIn,
                 unreadNotifications, unreadMessages, appAwaits,
                 unreadOnService, profileVars, messageVars>>

\* Auth signs in and calls onLoginSuccess: the session exists, the auth
\* listener runs setIsLoggedIn(true) and fetchUnreadCounts, handleLoginSuccess
\* runs setIsLoggedIn(true) and checkAuth()
AppHandleLoginSuccess ==
  /\ view = "app" /\ ~loading /\ ~isLoggedIn
  /\ issued + started < MaxOps
  /\ started' = started + 1
  /\ db' = [db EXCEPT !.session = Me]
  /\ isLoggedIn' = TRUE
  /\ appAwaits' = appAwaits \cup FetchUnreadCounts(started + 1)
                            \cup {Await("session", started + 1, 0)}
  /\ last' = Step("login", "likes", "p1", "done")
  /\ UNCHANGED <<view, localVars, inserts, fetches, issued, rankIn,
                 bookmarkVars, filterVars, notificationVars, activeTab,
                 unreadNotifications, unreadMessages, unreadOnService,
                 profileVars, messageVars>>

\* handleLogout, passed to Profile as onLogout, up to its awaited signOut
AppHandleLogout ==
  /\ view = "app" /\ ~loading /\ isLoggedIn /\ activeTab = "profile"
  /\ issued + started < MaxOps
  /\ issued' = issued + 1
  /\ appAwaits' = appAwaits \cup {Await("signout", issued + 1, 0)}
  /\ last' = Step("logout", "likes", "p1", "sent")
  /\ UNCHANGED <<view, localVars, inserts, fetches, db, started, rankIn,
                 bookmarkVars, filterVars, notificationVars, isLoggedIn,
                 activeTab, unreadNotifications, unreadMessages, unreadOnService,
                 profileVars, messageVars>>

\* handleLogout after signOut: the session is gone (the auth listener runs
\* setIsLoggedIn(false)); setIsLoggedIn(false), setActiveTab('home'),
\* setUnreadNotifications(0), setUnreadMessages(0)
AppHandleLogoutDone(c) ==
  /\ view = "app"
  /\ c \in appAwaits /\ c.kind = "signout"
  /\ db' = [db EXCEPT !.session = null]
  /\ isLoggedIn' = FALSE
  /\ activeTab' = "home"
  /\ unreadNotifications' = 0
  /\ unreadMessages' = 0
  /\ appAwaits' = appAwaits \ {c}
  /\ last' = Step("logout", "likes", "p1", "done")
  /\ UNCHANGED <<view, localVars, inserts, fetches, issued, started, rankIn,
                 bookmarkVars, filterVars, notificationVars, unreadOnService,
                 profileVars, messageVars>>

\* App just mounted: the effect has called checkAuth()
AppInit ==
  /\ view = "app"
  /\ db \in {d \in DbStates : \A t \in Tables, p \in Posts :
                                d.others[t][p] = 0 /\ d.mine[t][p] = 0}
  /\ isLoggedIn = FALSE /\ activeTab = "home"
  /\ unreadNotifications = 0 /\ unreadMessages = 0
  /\ appAwaits = {Await("session", 0, 0)}
  /\ unreadOnService \in [notifications : 0..MaxBase, messages : 0..MaxBase]
  /\ currentUserId = null
  /\ loading = TRUE
  /\ posts = <<>> /\ filteredPosts = <<>> /\ trendingPosts = <<>>
  /\ timeRange = "week"
  /\ userLikedPosts = {} /\ userSharedPosts = {}
  /\ inserts = {} /\ fetches = {}
  /\ issued = 0 /\ started = 0
  /\ last = NoStep
  /\ rankIn = <<>>
  /\ NoBookmarks
  /\ NoFilters
  /\ NoNotifications
  /\ NoProfile
  /\ NoMessages

AppNext ==
  \/ AppCheckAuth
  \/ \E c \in appAwaits : AppCheckAuthDone(c)
  \/ \E c \in appAwaits : AppFetchUnreadCountsNotifications(c)
  \/ \E c \in appAwaits : AppFetchUnreadCountsMessages(c)
  \/ \E t \in TabTypes : AppSetActiveTab(t)
  \/ AppHandleLoginSuccess
  \/ AppHandleLogout
  \/ \E c \in appAwaits : AppHandleLogoutDone(c)

SpecApp == AppInit /\ [][AppNext]_vars

----------------------------------------------------------------------------
(* ProfileComponents: the user's complexes and the total level *)

\* keys of COMPLEX_CATEGORIES a row may carry, and a key that is not in it
KnownCategories == {"appearance", "debt"}

UserComplex(c, l) == [category |-> c, level |-> l]

RECURSIVE SumLevels(_)
SumLevels(rows) ==
  IF rows = {} THEN 0
  ELSE LET r == CHOOSE x \in rows : TRUE
       IN  r.level + SumLevels(rows \ {r})

\* calculateTotalComplexLevel: Math.min(100, sum of the levels of the
\* complexes whose category is found in COMPLEX_CATEGORIES)
TotalLevel(rows) ==
  LET totalScore == SumLevels({r \in rows : r.category \in KnownCategories})
  IN  IF totalScore > 100 THEN 100 ELSE totalScore

\* an awaited call: the write of saveComplex / removeComplex ("upsert",
\* "delete"), fetchUserComplexes ("fetch", rows being the answer the service
\* computed), updateProfileComplexLevel ("update"); level is what the
\* caller's closure holds as totalComplexLevel, or nothing for the mount fetch
Call(kind, n, row, rows, level) ==
  [kind |-> kind, n |-> n, row |-> row, rows |-> rows, level |-> level]

\* saveComplex and removeComplex up to the awaited write (getUser answers
\* first; without a user they return)
ProfileSaveOrRemoveComplex(kind, c, l) ==
  /\ view = "profile" /\ ~loading
  /\ kind = "delete" => (l = 1 /\ c \in {r.category : r \in userComplexes})
  /\ issued + started < MaxOps
  /\ issued' = issued + 1
  /\ IF db.session = null
     THEN /\ last' = Step(kind, "user_complexes", c, "nouser")
          /\ UNCHANGED profileAwaits
     ELSE /\ last' = Step(kind, "user_complexes", c, "sent")
          /\ profileAwaits' = profileAwaits \cup
               {Call(kind, issued + 1, UserComplex(c, l), {},
                     Count(totalComplexLevel))}
  /\ UNCHANGED <<view, localVars, inserts, fetches, db, started, rankIn,
                 bookmarkVars, filterVars, notificationVars, appVars,
                 userComplexes, totalComplexLevel, complexRows, complexLevel,
                 messageVars>>

\* saveComplex() with the category and the level selected in the modal
ProfileSaveComplex(c, l) == ProfileSaveOrRemoveComplex("upsert", c, l)

\* removeComplex(category) of a listed complex
ProfileRemoveComplex(c) == ProfileSaveOrRemoveComplex("delete", c, 1)

\* the write has answered; without an error fetchUserComplexes() is awaited
ProfileWritten(a) ==
  /\ view = "profile"
  /\ a \in profileAwaits /\ a.kind \in {"upsert", "delete"}
  /\ \E answer \in {"ok", "error"} :
       /\ complexRows' =
            IF answer = "error" THEN complexRows
            ELSE {r \in complexRows : r.category # a.row.category}
                   \cup (IF a.kind = "upsert" THEN {a.row} ELSE {})
       /\ profileAwaits' = (profileAwaits \ {a}) \cup
            (IF answer = "error" THEN {}
             ELSE {Call("fetch", a.n, a.row, complexRows', a.level)})
       /\ last' = Step(answer, "user_complexes", a.row.category, a.kind)
  /\ UNCHANGED <<view, localVars, inserts, fetches, db, issued, started, rankIn,
                 bookmarkVars, filterVars, notificationVars, appVars,
                 userComplexes, totalComplexLevel, complexLevel, messageVars>>

\* fetchUserComplexes has answered: setUserComplexes(data || []), whose
\* effect is calculateTotalComplexLevel(); an error is logged. After the
\* mount fetch setLoading(false); after a write the timeout calls
\* updateProfileComplexLevel(totalComplexLevel) with the caller's value
ProfileFetchUserComplexes(a) ==
  /\ view = "profile"
  /\ a \in profileAwaits /\ a.kind = "fetch"
  /\ \E answer \in {"data", "error"} :
       /\ userComplexes' = IF answer = "data" THEN a.rows ELSE userComplexes
       /\ totalComplexLevel' = TotalLevel(userComplexes')
       /\ last' = Fetched(answer, "likes", "p1")
  /\ loading' = FALSE
  /\ profileAwaits' = (profileAwaits \ {a}) \cup
       (IF a.level = {} THEN {}
        ELSE {Call("update", a.n, a.row, {}, a.level)})
  /\ UNCHANGED <<view, currentUserId, posts, filteredPosts, trendingPosts,
                 timeRange, userLikedPosts, userSharedPosts, inserts, fetches,
                 db, issued, started, rankIn, bookmarkVars, filterVars,
                 notificationVars, appVars, complexRows, complexLevel,
                 messageVars>>

\* updateProfileComplexLevel(level) has answered
ProfileUpdateProfileComplexLevel(a) ==
  /\ view = "profile"
  /\ a \in profileAwaits /\ a.kind = "update"
  /\ \E answer \in {"ok", "error"} :
       /\ complexLevel' = IF answer = "ok" THEN OrZero(a.level) ELSE complexLevel
       /\ last' = Step(answer, "profiles", a.row.category, "complex_level")
  /\ profileAwaits' = profileAwaits \ {a}
  /\ UNCHANGED <<view, localVars, inserts, fetches, db, issued, started, rankIn,
                 bookmarkVars, filterVars, notificationVars, appVars,
                 userComplexes, totalComplexLevel, complexRows, messageVars>>

\* ProfileComponents just mounted: fetchProfile has come to its
\* fetchUserComplexes
ProfileInit ==
  /\ view = "profile"
  /\ db \in {d \in DbStates : \A t \in Tables, p \in Posts :
                                d.others[t][p] = 0 /\ d.mine[t][p] = 0}
  /\ complexRows \in SUBSET {UserComplex("debt", 100), UserComplex("legacy", 5)}
  /\ complexLevel = TotalLevel(complexRows)
  /\ userComplexes = {} /\ totalComplexLevel = 0
  /\ profileAwaits = {Call("fetch", 0, UserComplex("none", 0),
                           IF db.session = null THEN {} ELSE complexRows, {})}
  /\ currentUserId = null
  /\ loading = TRUE
  /\ posts = <<>> /\ filteredPosts = <<>> /\ trendingPosts = <<>>
  /\ timeRange = "week"
  /\ userLikedPosts = {} /\ userSharedPosts = {}
  /\ inserts = {} /\ fetches = {}
  /\ issued = 0 /\ started = 0
  /\ last = NoStep
  /\ rankIn = <<>>
  /\ NoBookmarks
  /\ NoFilters
  /\ NoNotifications
  /\ NoApp
  /\ NoMessages

ProfileNext ==
  \/ \E c \in KnownCategories, l \in {1, 10} : ProfileSaveComplex(c, l)
  \/ \E c \in KnownCategories \cup {"legacy"} : ProfileRemoveComplex(c)
  \/ \E a \in profileAwaits : ProfileWritten(a)
  \/ \E a \in profileAwaits : ProfileFetchUserComplexes(a)
  \/ \E a \in profileAwaits : ProfileUpdateProfileComplexLevel(a)

SpecProfile == ProfileInit /\ [][ProfileNext]_vars

----------------------------------------------------------------------------
(* MessagesComponents: the conversation list, the open conversation and *)
(* the messages_changes subscription                                     *)

\* the conversations of the user, in the order the select returns them
ConversationOrder == <<"c1", "c2">>
ConversationIds == {ConversationOrder[i] : i \in 1..Len(ConversationOrder)}

\* the messages rows of one conversation: how many there are and how many
\* of them are from the other user and unread
Thread(n, unread) == [n |-> n, unread |-> unread]

\* a conversation with its details, as fetchConversations builds it
Conversation(id, t) ==
  [id |-> id, last_message |-> t.n, unread_count |-> t.unread]

\* conversationsWithDetails of fetchConversations
ConversationsWithDetails(rows) ==
  [i \in 1..Len(ConversationOrder) |->
     Conversation(ConversationOrder[i], rows[ConversationOrder[i]])]

\* the rows fetchMessages selects: those of the conversation, oldest first
MessagesOf(c, rows) ==
  [i \in 1..rows[c].n |-> [conversation_id |-> c, id |-> i]]

\* an awaited call: the select of fetchConversations ("conversations") or
\* fetchMessages ("messages"), the update of markMessagesAsRead ("read"),
\* the insert of sendMessage ("insert"); then names what its caller does
\* after it, user is the caller's currentUserId
Request(kind, n, c, then, user) ==
  [kind |-> kind, n |-> n, c |-> c, then |-> then, user |-> user]

\* getCurrentUser() has answered
MessagesGetCurrentUser ==
  /\ view = "messages"
  /\ currentUserId = null /\ db.session # null
  /\ currentUserId' = db.session
  /\ last' = Step("user", "messages", "p1", "ok")
  /\ UNCHANGED <<view, loading, posts, filteredPosts, trendingPosts,
                 timeRange, userLikedPosts, userSharedPosts, inserts, fetches,
                 db, issued, started, rankIn, bookmarkVars, filterVars,
                 notificationVars, appVars, profileVars, messageVars>>

\* fetchConversations has answered: without a user setLoading(false) only;
\* an error is logged; else setConversations(conversationsWithDetails);
\* finally setLoading(false)
MessagesFetchConversations(a) ==
  /\ view = "messages"
  /\ a \in messageAwaits /\ a.kind = "conversations"
  /\ \E answer \in IF db.session = null THEN {"nouser"} ELSE {"data", "error"} :
       /\ conversations' = IF answer = "data"
                           THEN ConversationsWithDetails(messageRows)
                           ELSE conversations
       /\ last' = Fetched(answer, "likes", "p1")
  /\ loading' = FALSE
  /\ messageAwaits' = messageAwaits \ {a}
  /\ UNCHANGED <<view, currentUserId, posts, filteredPosts, trendingPosts,
                 timeRange, userLikedPosts, userSharedPosts, inserts, fetches,
                 db, issued, started, rankIn, bookmarkVars, filterVars,
                 notificationVars, appVars, profileVars, selectedConversation,
                 messages, messageModalVisible, sendingMessage,
                 loadingMessages, subscribedConversation, realtime,
                 messageRows>>

\* openConversation(conversation) up to its awaited fetchMessages
MessagesOpenConversation(c) ==
  /\ view = "messages" /\ ~loading /\ ~messageModalVisible
  /\ \E i \in 1..Len(conversations) : conversations[i].id = c
  /\ issued + started < MaxOps
  /\ issued' = issued + 1
  /\ selectedConversation' = c
  /\ messageModalVisible' = TRUE
  /\ loadingMessages' = TRUE
  /\ messageAwaits' = messageAwaits \cup
       {Request("messages", issued + 1, c, "read", currentUserId)}
  /\ last' = Step("open", "messages", c, "sent")
  /\ UNCHANGED <<view, localVars, inserts, fetches, db, started, rankIn,
                 bookmarkVars, filterVars, notificationVars, appVars,
                 profileVars, conversations, messages, sendingMessage,
                 subscribedConversation, realtime, messageRows>>

\* the modal's close button / onRequestClose: setMessageModalVisible(false)
MessagesCloseModal ==
  /\ view = "messages" /\ messageModalVisible
  /\ messageModalVisible' = FALSE
  /\ last' = Step("close", "messages", selectedConversation, "ok")
  /\ UNCHANGED <<view, localVars, inserts, fetches, db, issued, started,
                 rankIn, bookmarkVars, filterVars, notificationVars, appVars,
                 profileVars, conversations, selectedConversation, messages,
                 sendingMessage, loadingMessages, messageAwaits,
                 subscribedConversation, realtime, messageRows>>

\* fetchMessages has answered: setMessages(data || []), an error is logged,
\* finally setLoadingMessages(false). Then its caller goes on:
\* openConversation with markMessagesAsRead (which returns without a
\* currentUserId), sendMessage with setSendingMessage(false)
MessagesFetchMessages(a) ==
  /\ view = "messages"
  /\ a \in messageAwaits /\ a.kind = "messages"
  /\ \E answer \in {"data", "error"} :
       /\ messages' = IF answer = "data" THEN MessagesOf(a.c, messageRows)
                      ELSE messages
       /\ last' = Step("fetch", "messages", a.c, answer)
  /\ loadingMessages' = FALSE
  /\ sendingMessage' = IF a.then = "sent" THEN FALSE ELSE sendingMessage
  /\ messageAwaits' = (messageAwaits \ {a}) \cup
       (IF a.then = "read" /\ a.user # null
        THEN {Request("read", a.n, a.c, "none", a.user)} ELSE {})
  /\ UNCHANGED <<view, localVars, inserts, fetches, db, issued, started,
                 rankIn, bookmarkVars, filterVars, notificationVars, appVars,
                 profileVars, conversations, selectedConversation,
                 messageModalVisible, subscribedConversation, realtime,
                 messageRows>>

\* the update of markMessagesAsRead has answered: the unread rows of the
\* other user are read (a change of the table, if there were any), and
\* fetchConversations() is called; a throw is logged
MessagesMarkMessagesAsRead(a) ==
  /\ view = "messages"
  /\ a \in messageAwaits /\ a.kind = "read"
  /\ \E answer \in {"ok", "throw"} :
       /\ messageRows' =
            IF answer = "ok"
            THEN [messageRows EXCEPT ![a.c] = Thread(@.n, 0)]
            ELSE messageRows
       /\ realtime' =
            IF answer = "ok" /\ messageRows[a.c].unread > 0
            THEN [realtime EXCEPT !.pending = @ + 1]
            ELSE realtime
       /\ messageAwaits' = (messageAwaits \ {a}) \cup
            (IF answer = "ok"
             THEN {Request("conversations", a.n, a.c, "none", a.user)}
             ELSE {})
       /\ last' = Step(answer, "messages", a.c, "read")
  /\ UNCHANGED <<view, localVars, inserts, fetches, db, issued, started,
                 rankIn, bookmarkVars, filterVars, notificationVars, appVars,
                 profileVars, conversations, selectedConversation, messages,
                 messageModalVisible, sendingMessage, loadingMessages,
                 subscribedConversation>>

\* sendMessage() with a text typed, up to its awaited insert
MessagesSendMessage ==
  /\ view = "messages" /\ messageModalVisible /\ ~sendingMessage
  /\ selectedConversation # null /\ currentUserId # null
  /\ issued + started < MaxOps
  /\ issued' = issued + 1
  /\ sendingMessage' = TRUE
  /\ messageAwaits' = messageAwaits \cup
       {Request("insert", issued + 1, selectedConversation, "sent",
                currentUserId)}
  /\ last' = Step("send", "messages", selectedConversation, "sent")
  /\ UNCHANGED <<view, localVars, inserts, fetches, db, started, rankIn,
                 bookmarkVars, filterVars, notificationVars, appVars,
                 profileVars, conversations, selectedConversation, messages,
                 messageModalVisible, loadingMessages,
                 subscribedConversation, realtime, messageRows>>

\* the insert of sendMessage has answered: with an error it is logged and
\* finally setSendingMessage(false); else the row is in the table (a change
\* of the table) and fetchMessages(selectedConversation.id) is awaited
MessagesInserted(a) ==
  /\ view = "messages"
  /\ a \in messageAwaits /\ a.kind = "insert"
  /\ \E answer \in {"ok", "error"} :
       /\ messageRows' =
            IF answer = "ok"
            THEN [messageRows EXCEPT ![a.c] = Thread(@.n + 1, @.unread)]
            ELSE messageRows
       /\ realtime' = IF answer = "ok"
                      THEN [realtime EXCEPT !.pending = @ + 1]
                      ELSE realtime
       /\ sendingMessage' = (answer = "ok")
       /\ loadingMessages' = IF answer = "ok" THEN TRUE ELSE loadingMessages
       /\ messageAwaits' = (messageAwaits \ {a}) \cup
            (IF answer = "ok"
             THEN {Request("messages", a.n, a.c, "sent", a.user)}
             ELSE {})
       /\ last' = Step(answer, "messages", a.c, "insert")
  /\ UNCHANGED <<view, localVars, inserts, fetches, db, issued, started,
                 rankIn, bookmarkVars, filterVars, notificationVars, appVars,
                 profileVars, conversations, selectedConversation, messages,
                 messageModalVisible, subscribedConversation>>

\* the other user of conversation c sends a message: a change of the table
MessagesOtherSends(c) ==
  /\ view = "messages" /\ db.session # null
  /\ c \in ConversationIds
  /\ issued + started < MaxOps
  /\ started' = started + 1
  /\ messageRows' = [messageRows EXCEPT ![c] = Thread(@.n + 1, @.unread + 1)]
  /\ realtime' = [realtime EXCEPT !.pending = @ + 1]
  /\ last' = Step("other", "messages", c, "insert")
  /\ UNCHANGED <<view, localVars, inserts, fetches, db, issued, rankIn,
                 bookmarkVars, filterVars, notificationVars, appVars,
                 profileVars, conversations, selectedConversation, messages,
                 messageModalVisible, sendingMessage, loadingMessages,
                 messageAwaits, subscribedConversation>>

\* a postgres_changes event of the messages table arrives: the callback
\* registered by the mount effect runs, fetchConversations() and, if the
\* selectedConversation it holds is set, fetchMessages of it (with its
\* setLoadingMessages(true))
MessagesChangeEvent ==
  /\ view = "messages"
  /\ realtime.pending > 0
  /\ realtime' = [pending |-> realtime.pending - 1,
                  delivered |-> realtime.delivered + 1]
  /\ messageAwaits' = messageAwaits
       \cup {Request("conversations", MaxOps + realtime'.delivered, null,
                     "none", null)}
       \cup (IF subscribedConversation # null
             THEN {Request("messages", MaxOps + realtime'.delivered,
                           subscribedConversation, "none", null)}
             ELSE {})
  /\ loadingMessages' =
       IF subscribedConversation # null THEN TRUE ELSE loadingMessages
  /\ last' = Step("event", "messages", "p1", "change")
  /\ UNCHANGED <<view, localVars, inserts, fetches, db, issued, started,
                 rankIn, bookmarkVars, filterVars, notificationVars, appVars,
                 profileVars, conversations, selectedConversation, messages,
                 messageModalVisible, sendingMessage, subscribedConversation,
                 messageRows>>

\* MessagesComponents just mounted: getCurrentUser and fetchConversations
\* are called and the channel is subscribed by the effect of the first
\* render, whose selectedConversation is null; the effect has no
\* dependencies, so the callback is never replaced
MessagesInit ==
  /\ view = "messages"
  /\ db \in {d \in DbStates : \A t \in Tables, p \in Posts :
                                d.others[t][p] = 0 /\ d.mine[t][p] = 0}
  /\ messageRows \in [ConversationIds -> {Thread(0, 0), Thread(1, 1)}]
  /\ conversations = <<>> /\ selectedConversation = null /\ messages = <<>>
  /\ messageModalVisible = FALSE /\ sendingMessage = FALSE
  /\ loadingMessages = FALSE
  /\ subscribedConversation = selectedConversation
  /\ realtime = [pending |-> 0, delivered |-> 0]
  /\ messageAwaits = {Request("conversations", 0, null, "none", null)}
  /\ currentUserId = null
  /\ loading = TRUE
  /\ posts = <<>> /\ filteredPosts = <<>> /\ trendingPosts = <<>>
  /\ timeRange = "week"
  /\ userLikedPosts = {} /\ userSharedPosts = {}
  /\ inserts = {} /\ fetches = {}
  /\ issued = 0 /\ started = 0
  /\ last = NoStep
  /\ rankIn = <<>>
  /\ NoBookmarks
  /\ NoFilters
  /\ NoNotifications
  /\ NoApp
  /\ NoProfile

MessagesNext ==
  \/ MessagesGetCurrentUser
  \/ \E a \in messageAwaits : MessagesFetchConversations(a)
  \/ \E c \in ConversationIds : MessagesOpenConversation(c)
  \/ MessagesCloseModal
  \/ \E a \in messageAwaits : MessagesFetchMessages(a)
  \/ \E a \in messageAwaits : MessagesMarkMessagesAsRead(a)
  \/ MessagesSendMessage
  \/ \E a \in messageAwaits : MessagesInserted(a)
  \/ \E c \in ConversationIds : MessagesOtherSends(c)
  \/ MessagesChangeEvent

SpecMessages == MessagesInit /\ [][MessagesNext]_vars

----------------------------------------------------------------------------
(* The three views: App.renderContent mounts one of them *)

Init == HomeInit \/ SearchInit \/ TrendingInit

Next == HomeNext \/ SearchNext \/ TrendingNext

Spec == Init /\ [][Next]_vars

----------------------------------------------------------------------------
(* Properties of the optimistic toggles *)

\* a step of any view's handleLike / handleShare on post p
HandleLikeStep(p) ==
  HomeHandleLike(p) \/ SearchHandleLike(p) \/ TrendingHandleLike(p)

HandleShareStep(p) == HomeHandleShare(p) \/ SearchHandleShare(p)

\* a step in which the insert w is answered with a failure
InsertErrorStep(w) ==
  HomeInsertError(w) \/ SearchInsertError(w) \/ TrendingInsertError(w)

InsertThrowStep(w) ==
  HomeInsertThrow(w) \/ SearchInsertThrow(w) \/ TrendingInsertThrow(w)

\* the membership set and the displayed count the insert w belongs to
MembersOf(w) == IF w.table = "likes" THEN userLikedPosts ELSE userSharedPosts

ShownCountOf(w) ==
  IF w.table = "likes" THEN LikesOf(Shown, w.post) ELSE SharesOf(Shown, w.post)

\* C1: in the feed, once a failed like or share insert has been handled, the
\* post (if still listed) is out of the membership set again and its
\* displayed count is the count the handler found before the call.
C1_RollbackRestoresPreCallState ==
  [][\A w \in inserts :
       ((HomeInsertError(w) \/ HomeInsertThrow(w)) /\ w.post \in Ids(posts)) =>
         /\ w.post \notin MembersOf(w)'
         /\ ShownCountOf(w)' = w.pre]_vars

\* C2: a second like tap on the same post, right after the tap that sent
\* the insert and before that insert has answered, is absorbed by the
\* membership check: it sends nothing and changes nothing, so the post is in
\* the liked set and its count stands exactly one above the count found by
\* the first tap.
C2_RapidSecondTapAbsorbed ==
  [][\A p \in Posts :
       (/\ last = Step("tap", "likes", p, "sent")
        /\ HandleLikeStep(p)) =>
         /\ last' = Step("tap", "likes", p, "already")
         /\ UNCHANGED <<localVars, inserts, issued, db>>
         /\ p \in userLikedPosts'
         /\ \A w \in inserts' :
              (w.n = issued' /\ w.table = "likes") =>
                 /\ w.post = p
                 /\ LikesOf(Shown', p) = {n + 1 : n \in w.pre}]_vars

\* C2 witness: a like tap was absorbed while a like insert for the same post
\* is still in flight
C2_Witness ==
  /\ last.op = "tap" /\ last.table = "likes" /\ last.res = "already"
  /\ \E w \in inserts : w.table = "likes" /\ w.post = last.post

\* C3: no displayed likes_count or shares_count is ever below 0.
C3_CountersNonNegative ==
  \A i \in DOMAIN Shown :
    Shown[i].likes_count >= 0 /\ Shown[i].shares_count >= 0

\* C4: a like (share) handler called for a post that is already in the liked
\* (shared) set changes no membership set and no counter and sends no insert.
C4_AlreadyActedNoOp ==
  [][\A p \in Posts :
       /\ (p \in userLikedPosts /\ HandleLikeStep(p)) =>
            UNCHANGED <<localVars, inserts, issued, db>>
       /\ (p \in userSharedPosts /\ HandleShareStep(p)) =>
            UNCHANGED <<localVars, inserts, issued, db>>]_vars

\* C4 witness: a signed-in user's tap on a post the service already lists as
\* acted on ended in the already-acted branch, with no insert in flight
C4_Witness ==
  /\ last.op = "tap" /\ last.res = "already"
  /\ currentUserId # null
  /\ inserts = {} /\ issued = 0
  /\ last.post \in (IF last.table = "likes" THEN userLikedPosts ELSE userSharedPosts)

\* C5: with no current user id, a like or share handler of any view changes
\* no membership set and no counter and sends no insert.
C5_UnauthenticatedGuard ==
  [][\A p \in Posts :
       (currentUserId = null /\ (HandleLikeStep(p) \/ HandleShareStep(p))) =>
         /\ UNCHANGED <<localVars, inserts, issued, db>>
         /\ last'.res = "unauthenticated"]_vars

\* C5 witness: a handler ran on a displayed post with no current user id
C5_Witness ==
  /\ last.op = "tap" /\ last.res = "unauthenticated"
  /\ currentUserId = null
  /\ last.post \in Ids(Shown)

\* C6: in every view, an insert that fails, by an error value or by a throw,
\* is answered with the rollback: the post leaves the membership set and the
\* displayed count goes down by one.
C6_UniformRollback ==
  [][\A w \in inserts :
       (InsertErrorStep(w) \/ InsertThrowStep(w)) =>
         /\ MembersOf(w)' = MembersOf(w) \ {w.post}
         /\ ShownCountOf(w)' = {n - 1 : n \in ShownCountOf(w)}]_vars

----------------------------------------------------------------------------
(* Properties of the ranking computation, on the tables of RankTables *)

\* the list fetchTrendingPosts has handed to setTrendingPosts
RankDone == view = "rank" /\ ~loading

\* position of post id in the posts table as the query returned it
ArrivalIndex(id) == CHOOSE i \in DOMAIN rankIn : rankIn[i].id = id

\* the window of each time range and the weighted sum, as the specification
\* of the ranking states them
WindowDays == [day |-> 1, week |-> 7, month |-> 30]

WeightedSum(likes, replies, shares) == likes * 3 + replies * 2 + shares * 5

ZeroIfMissing(c) == IF c = {} THEN 0 ELSE CHOOSE n \in c : TRUE

\* the rows of the table created within the window of the chosen time range
Qualifying ==
  {i \in DOMAIN rankIn : rankIn[i].age <= WindowDays[timeRange]}

\* C7: every post of the computed trending list carries the counts the count
\* queries answered (a missing count as 0) and engagement_score =
\* likes_count*3 + replies_count*2 + shares_count*5.
C7_EngagementScore ==
  RankDone =>
    \A i \in DOMAIN trendingPosts :
      LET o == trendingPosts[i]
          r == rankIn[ArrivalIndex(o.id)]
      IN  /\ o.likes_count = ZeroIfMissing(r.likes)
          /\ o.replies_count = ZeroIfMissing(r.replies)
          /\ o.shares_count = ZeroIfMissing(r.shares)
          /\ o.engagement_score =
               WeightedSum(o.likes_count, o.replies_count, o.shares_count)

\* a computed list holding a post with a missing count and a positive score
C7_Witness ==
  /\ RankDone
  /\ \E i \in DOMAIN trendingPosts :
       /\ rankIn[ArrivalIndex(trendingPosts[i].id)].likes = {}
       /\ trendingPosts[i].likes_count = 0
       /\ trendingPosts[i].shares_count > 0
       /\ trendingPosts[i].replies_count > 0
       /\ trendingPosts[i].engagement_score > 0

\* C8: the computed trending list is in non-increasing engagement_score
\* order, posts with equal scores keep the order in which the query returned
\* them, and A (39), B (56), C (0) come out as B, A, C.
C8_RankingOrder ==
  RankDone =>
    /\ \A i, j \in DOMAIN trendingPosts :
         i < j =>
           /\ trendingPosts[i].engagement_score >= trendingPosts[j].engagement_score
           /\ trendingPosts[i].engagement_score = trendingPosts[j].engagement_score
                => ArrivalIndex(trendingPosts[i].id) < ArrivalIndex(trendingPosts[j].id)
    /\ rankIn = ExampleTable =>
         /\ [i \in DOMAIN trendingPosts |-> trendingPosts[i].id] = <<2, 1, 3>>
         /\ [i \in DOMAIN trendingPosts |-> trendingPosts[i].engagement_score]
              = <<56, 39, 0>>

\* a computed list that differs from the arrival order and holds a tie
C8_Witness ==
  /\ RankDone
  /\ \E i, j \in DOMAIN trendingPosts :
       /\ i < j
       /\ trendingPosts[i].engagement_score = trendingPosts[j].engagement_score
  /\ \E i, j \in DOMAIN trendingPosts :
       /\ i < j
       /\ ArrivalIndex(trendingPosts[i].id) > ArrivalIndex(trendingPosts[j].id)
       /\ trendingPosts[i].engagement_score > trendingPosts[j].engagement_score

\* C9: for n posts inside the window the computed trending list has
\* min(n, 20) posts, each listed once, and no post left out ranks before a
\* listed one; 25 posts inside the window give exactly 20.
C9_Truncation ==
  RankDone =>
    LET n == Cardinality(Qualifying)
        listed == {ArrivalIndex(trendingPosts[i].id) : i \in DOMAIN trendingPosts}
        score(a) == WeightedSum(ZeroIfMissing(rankIn[a].likes),
                                ZeroIfMissing(rankIn[a].replies),
                                ZeroIfMissing(rankIn[a].shares))
    IN  /\ Len(trendingPosts) = IF n < 20 THEN n ELSE 20
        /\ Cardinality(listed) = Len(trendingPosts)
        /\ listed \subseteq Qualifying
        /\ \A a \in Qualifying \ listed : \A b \in listed :
             \/ score(a) < score(b)
             \/ score(a) = score(b) /\ a > b
        /\ n = 25 => Len(trendingPosts) = 20

\* 25 posts inside the window, 20 of them listed
C9_Witness ==
  /\ RankDone
  /\ Cardinality(Qualifying) = 25
  /\ Len(trendingPosts) = 20

\* C10: day / week / month give a window of 1 / 7 / 30 days; the computed
\* trending list holds only posts created inside the window, and all of them
\* when they are at most 20; a post created 10 days ago is out for the week
\* and in for the month.
C10_WindowFiltering ==
  RankDone =>
    LET listed == {ArrivalIndex(trendingPosts[i].id) : i \in DOMAIN trendingPosts}
        tenDays == {i \in DOMAIN rankIn : rankIn[i].age = 10}
    IN  /\ DaysAgo(timeRange) = WindowDays[timeRange]
        /\ \A a \in listed : rankIn[a].age <= WindowDays[timeRange]
        /\ Cardinality(Qualifying) <= 20 => listed = Qualifying
        /\ timeRange = "week" => listed \cap tenDays = {}
        /\ (timeRange = "month" /\ Cardinality(Qualifying) <= 20)
             => tenDays \subseteq listed

\* a month list holding a post created 10 days ago, from a table that also
\* holds a post older than the month
C10_Witness ==
  /\ RankDone
  /\ timeRange = "month"
  /\ \E i \in DOMAIN trendingPosts :
       rankIn[ArrivalIndex(trendingPosts[i].id)].age = 10
  /\ \E a \in DOMAIN rankIn : rankIn[a].age > 30

----------------------------------------------------------------------------
(* Properties of the refetches *)

\* a step in which a fetch handles the failure of one of its queries
FetchFailureStep ==
  last'.op = "fetch" /\ last'.res \in {"error", "partial", "nomembers"}

\* C11: a fetch step of a view that already holds a list, in which the posts
\* query, a count query or a membership query failed, leaves the posts, their
\* counters and the membership sets as they were.
C11_FetchFailureKeepsView ==
  [][(Shown # <<>> /\ FetchFailureStep) =>
       UNCHANGED <<posts, filteredPosts, trendingPosts, userLikedPosts,
                   userSharedPosts>>]_vars

----------------------------------------------------------------------------
(* Properties of the order and the scope of the optimistic changes *)

\* C14: in the step of a like or share handler that sends an insert, the
\* post has joined the membership set and its displayed count stands one
\* above the count before the tap; the row reaches the service only in a
\* later step, for an insert sent before.
C14_OptimisticBeforeInsert ==
  [][/\ \A w \in inserts' \ inserts :
          /\ w.post \in MembersOf(w)' \ MembersOf(w)
          /\ w.pre = ShownCountOf(w)
          /\ ShownCountOf(w)' = {n + 1 : n \in w.pre}
          /\ db' = db
     /\ \A t \in Tables, p \in Posts :
          db'.mine[t][p] > db.mine[t][p] =>
            \E w \in inserts : w.table = t /\ w.post = p]_vars

\* an insert just sent by a tap, its optimistic change displayed, its row not
\* yet in the service
C14_Witness ==
  /\ last.op = "tap" /\ last.res = "sent"
  /\ \E w \in inserts :
       /\ w.n = issued /\ w.table = last.table /\ w.post = last.post
       /\ w.post \in MembersOf(w)
       /\ ShownCountOf(w) = {n + 1 : n \in w.pre}
       /\ db.mine[w.table][w.post] = 0

\* a step in which the failure of insert w is answered with a rollback
RollbackStep(w) ==
  \/ HomeInsertError(w) \/ HomeInsertThrow(w)
  \/ SearchInsertError(w) \/ TrendingInsertError(w)

\* the displayed counts and the memberships of every post but p stay
OthersUnchanged(p) ==
  \A q \in Posts \ {p} :
    /\ LikesOf(Shown', q) = LikesOf(Shown, q)
    /\ SharesOf(Shown', q) = SharesOf(Shown, q)
    /\ (q \in userLikedPosts') = (q \in userLikedPosts)
    /\ (q \in userSharedPosts') = (q \in userSharedPosts)

\* C15: a like (share) that is sent raises the displayed likes_count
\* (shares_count) of its post by exactly 1 and its rollback lowers it by
\* exactly 1; neither touches the other counter of the post, nor any counter
\* or membership of another post.
C15_ExactDeltaAndIndependence ==
  [][/\ \A p \in Posts :
          /\ (HandleLikeStep(p) /\ last'.res = "sent") =>
               /\ LikesOf(Shown', p) = {n + 1 : n \in LikesOf(Shown, p)}
               /\ SharesOf(Shown', p) = SharesOf(Shown, p)
               /\ userSharedPosts' = userSharedPosts
               /\ OthersUnchanged(p)
          /\ (HandleShareStep(p) /\ last'.res = "sent") =>
               /\ SharesOf(Shown', p) = {n + 1 : n \in SharesOf(Shown, p)}
               /\ LikesOf(Shown', p) = LikesOf(Shown, p)
               /\ userLikedPosts' = userLikedPosts
               /\ OthersUnchanged(p)
     /\ \A w \in inserts :
          RollbackStep(w) =>
            /\ ShownCountOf(w)' = {n - 1 : n \in ShownCountOf(w)}
            /\ IF w.table = "likes"
               THEN /\ SharesOf(Shown', w.post) = SharesOf(Shown, w.post)
                    /\ userSharedPosts' = userSharedPosts
               ELSE /\ LikesOf(Shown', w.post) = LikesOf(Shown, w.post)
                    /\ userLikedPosts' = userLikedPosts
            /\ OthersUnchanged(w.post)]_vars

\* a rollback has just run for one post while the insert of a toggle on
\* another post is still in flight, its optimistic change displayed
C15_Witness ==
  /\ last.res = "rolledback"
  /\ \E w \in inserts :
       /\ w.post # last.post
       /\ w.post \in MembersOf(w)
       /\ ShownCountOf(w) = {n + 1 : n \in w.pre}

----------------------------------------------------------------------------
(* Properties of the feed's refetch after a change event *)

\* fetchPosts f returns with all its queries answered, and its count of likes
\* for post p is the count the service holds now
CompletesCurrent(f, p) ==
  /\ HomeFetchPostsMembers(f)
  /\ last'.res = "members"
  /\ \A i \in DOMAIN f.rows :
       /\ f.rows[i].likes # {} /\ f.rows[i].shares # {}
       /\ f.rows[i].id = p => f.rows[i].likes = Count(DbCount("likes", p))

\* the posts the user has liked since the view mounted: the service held no
\* row of the user for the first post then (DbStates)
LikedSinceMount == {p \in {PostOrder[1]} : db.mine["likes"][p] > 0}

\* C16: when a fetchPosts whose queries saw the like the user has sent for p
\* returns, p (if listed) shows the service's count of likes, the like
\* counted once, and p is in the liked set.
C16_PushRefetchCountsOnce ==
  [][\A f \in fetches : \A p \in f.liked \cap LikedSinceMount :
       (CompletesCurrent(f, p) /\ p \in Ids(posts')) =>
         /\ LikesOf(posts', p) = {DbCount("likes", p)}
         /\ p \in userLikedPosts']_vars

----------------------------------------------------------------------------
(* Properties of retry, unmount and the other toggles *)

\* C17: once the failure of a like or share insert for a post has been
\* handled, by an error value or by a throw, the post is not in the
\* membership set, so the membership check of the handler lets the next tap
\* on it through.
C17_FailureRecoverableByRetap ==
  [][\A w \in inserts :
       (InsertErrorStep(w) \/ InsertThrowStep(w)) =>
         ~AlreadyActed(MembersOf(w)', w.post)]_vars

\* C18: unmounting Home cancels no insert and no query in flight; afterwards
\* no answer changes the state the view had, nothing new is sent, no change
\* event starts a fetchPosts, and an insert in flight can only be answered.
C18_UnmountDuringFlight ==
  [][/\ HomeUnmount => UNCHANGED <<inserts, fetches, db>>
     /\ view = "unmounted" =>
          /\ UNCHANGED <<localVars, issued, started>>
          /\ inserts' \subseteq inserts
          /\ \A f \in fetches' \ fetches : f.stage = "members"]_vars

\* after the unmount an insert sent before it has written its row, and the
\* view's state still shows the optimistic change
C18_Witness ==
  /\ view = "unmounted"
  /\ last.op = "ok" /\ last.res = "dropped"
  /\ db.mine[last.table][last.post] > 0
  /\ last.post \in (IF last.table = "likes" THEN userLikedPosts
                                            ELSE userSharedPosts)

\* a step of removeBookmark on post p that sends the delete
RemoveSentStep(p) == BookmarksRemoveBookmark(p) /\ last'.res = "sent"

RefetchedOver(w) ==
  /\ view = "feed"
  /\ w.table = "likes"
  /\ last.op = "fetch" /\ last.res = "members"
  /\ w.post \in Ids(posts)
  /\ w.post \notin userLikedPosts
  /\ LikesOf(posts, w.post) = w.pre

\* C20: in the feed, when a like's insert fails after a refetch has replaced
\* the posts and the liked set by a snapshot without the like, the rollback
\* leaves the post's likes_count at the snapshot's count, and not below zero.
C20_RollbackAfterRefetch ==
  [][\A w \in inserts :
       (RefetchedOver(w) /\ (HomeInsertError(w) \/ HomeInsertThrow(w))) =>
         /\ LikesOf(posts', w.post) = LikesOf(posts, w.post)
         /\ \A n \in LikesOf(posts', w.post) : n >= 0]_vars

\* C21: in the trending view every displayed post carries the score of its
\* own displayed counts, likes_count * 3 + replies_count * 2 +
\* shares_count * 5, also after an optimistic like and after its rollback.
C21_TrendingScoreConsistent ==
  view = "trending" =>
    \A i \in DOMAIN trendingPosts :
      trendingPosts[i].engagement_score =
        trendingPosts[i].likes_count * 3 + trendingPosts[i].replies_count * 2
          + trendingPosts[i].shares_count * 5

\* a like in the trending view has just been rolled back, while a post with
\* replies and one with other users' likes and shares are displayed
C21_Witness ==
  /\ view = "trending"
  /\ last = Step("error", "likes", last.post, "rolledback")
  /\ \E i \in DOMAIN trendingPosts : trendingPosts[i].replies_count > 0
  /\ \E i \in DOMAIN trendingPosts :
       trendingPosts[i].likes_count > 0 /\ trendingPosts[i].shares_count > 0

\* C22: in the trending view the displayed list is in non-increasing
\* engagement_score order, also after optimistic likes.
C22_TrendingStaysRanked ==
  view = "trending" =>
    \A i, j \in DOMAIN trendingPosts :
      i < j => trendingPosts[i].engagement_score
                 >= trendingPosts[j].engagement_score

\* the ranking of the selected time range on the service as it is
CurrentRanking == Ranked(Since(DbRows, DaysAgo(timeRange)))

\* C23: when the time range was changed with a trending fetch in flight and
\* both fetches have answered with their posts, one right after the other
\* and no like sent meanwhile, the displayed list is the ranking of the
\* selected time range, in whichever order the two answered.
C23_LatestTimeRangeWins ==
  [][\A f \in fetches :
       (/\ last.op = "fetch" /\ last.res = "data"
        /\ TrendingFetchTrendingPosts(f)
        /\ last'.res = "data"
        /\ started >= 1 /\ issued = 0
        /\ ~\E g \in fetches' : g.kind = "trending") =>
         trendingPosts' = CurrentRanking']_vars

\* C24: in the search view, while a like on a post is in flight and the post
\* is in the liked set, a step that applies the filters again leaves the
\* post, if still listed, with its pre-like count plus 1; and a rollback
\* that follows such a step leaves it with its pre-like count.
C24_SearchKeepsOptimisticCount ==
  [][\A w \in inserts :
       (view = "search" /\ w.table = "likes") =>
         /\ (/\ last'.op = "filter"
             /\ w.post \in userLikedPosts
             /\ w.post \in Ids(filteredPosts')) =>
              LikesOf(filteredPosts', w.post) = {n + 1 : n \in w.pre}
         /\ (/\ last.op = "filter"
             /\ SearchInsertError(w)
             /\ w.post \in Ids(filteredPosts)) =>
              LikesOf(filteredPosts', w.post) = w.pre]_vars

\* C25: in the notifications view unreadCount is the number of
\* notifications of the local list with is_read = false, and is not
\* negative.
C25_UnreadCounterMatchesList ==
  view = "notifications" =>
    unreadCount = Unread(notifications) /\ unreadCount >= 0

\* C26: App without a session and with nothing awaited (handleLogout and the
\* unread-count fetches have settled) is logged out, on the home tab, with
\* both unread badges at 0.
C26_LogoutClearsBadges ==
  (view = "app" /\ ~loading /\ db.session = null /\ appAwaits = {}) =>
    /\ ~isLoggedIn /\ activeTab = "home"
    /\ unreadNotifications = 0 /\ unreadMessages = 0

\* C27: when the update that follows a successful saveComplex or
\* removeComplex and its refetch is written, the profile's complex_level is
\* min(100, sum of
\* the levels of the user's complexes of known categories) as the complexes
\* are after that write, and it is within 0..100.
C27_PersistedLevelIsCurrentTotal ==
  [][\A a \in profileAwaits :
       (/\ last = Fetched("data", "likes", "p1")
        /\ ProfileUpdateProfileComplexLevel(a) /\ last'.op = "ok") =>
         /\ complexLevel' = TotalLevel(complexRows)
         /\ complexLevel' \in 0..100]_vars

\* C28: whenever a change event of the messages table arrives while a
\* conversation is open (selected, its modal visible), the callback starts a
\* refetch of the conversation list and a refetch of the messages of the
\* conversation that is open.
C28_OpenConversationFollowsRealtime ==
  [][(MessagesChangeEvent /\ messageModalVisible
        /\ selectedConversation # null) =>
       /\ \E a \in messageAwaits' \ messageAwaits : a.kind = "conversations"
       /\ \E a \in messageAwaits' \ messageAwaits :
            a.kind = "messages" /\ a.c = selectedConversation]_vars

====
